---- MODULE Spec2Model ----
(***************************************************************************)
(* Broker WebSocket gateway and token-refresh subsystem.                   *)
(*                                                                         *)
(* Part I   TokenService        token-refresh-service/app/core/            *)
(*                              token_service.py                           *)
(* Part II  CircuitBreaker, MessageQueue, BaseWebSocketClient              *)
(*                              backend/strategies/brokers/base/client.py  *)
(* Part III ConnectionPoolMixin, ConnectionPool                            *)
(*                              backend/strategies/consumers/mixins.py,    *)
(*                              manager.py                                 *)
(* Part IV  the Channels consumers serving client sessions                 *)
(*                              backend/strategies/consumers/,             *)
(*                              backend/strategies/brokers/                *)
(*                                                                         *)
(* Both programs are asyncio programs: a coroutine runs without            *)
(* interruption from one suspension point (a network await, a sleep, a     *)
(* contended lock) to the next, so one action of the model is one such     *)
(* segment.  Each part has its own specification; a specification keeps    *)
(* the variables of the other parts at their initial values.               *)
(***************************************************************************)
EXTENDS Integers, Sequences, FiniteSets, TLC

VARIABLES
    clock,                  \* wall clock, seconds
    \* ---- Part I: TokenService and its database rows
    creds,                  \* broker_credentials rows, by credential id
    acct_status,            \* broker_accounts.status of the credential's account
    _refresh_attempts,      \* TokenService._refresh_attempts (absent entry = 0)
    _refresh_in_progress,   \* TokenService._refresh_in_progress
    _locks,                 \* TokenService._locks: holder of the id's lock, 0 = free
    calls,                  \* the refresh_token_if_needed coroutines of one gather
    snap,                   \* the list get_active_credentials returned to the caller
    sched,                  \* run_until_shutdown / run_refresh_cycle position
    thist,                  \* observations of Part I (history, read by no action)
    \* ---- Part II: CircuitBreaker, MessageQueue
    cb,                     \* CircuitBreaker: state, failures, last_failure_time
    bhist,                  \* observations of the breaker's calls
    queue,                  \* MessageQueue.queue: (time, message) entries
    high_priority_queue,    \* MessageQueue.high_priority_queue
    qhist,                  \* observations of the queue's calls
    stats,                  \* MessageStats.processing_times, milliseconds
    batch_configs,          \* batch_configs[message_type]['max_size']
    bthist,                 \* observations of the batch-size adjustments
    \* ---- Part II: BaseWebSocketClient / TradovateWebSocketClient
    is_connected,
    connection_state,       \* DISCONNECTED, CONNECTING, CONNECTED, RECONNECTING
    ws,                     \* the transport object: "none" or "open"
    last_heartbeat,         \* time of the last heartbeat frame, -1 for None
    _connection_lock,       \* asyncio.Lock: 0 when free, else the task holding it
    lock_waiters,           \* tasks waiting for _connection_lock, first come first
    ctask,                  \* the coroutines running on the client, by task
    chist,                  \* observations of the client's last step
    \* ---- Part III: connection pools (ConnectionPoolMixin, ConnectionPool)
    pool_impl,              \* which pool class is in use: "mixin", "manager", "none"
    max_connections,        \* the pool object's max_connections / max_size
    pool_exists,            \* pool_id in self.pools
    connections,            \* pool['connections'], in insertion order
    connected,              \* the connection objects whose is_connected is true
    plock,                  \* the pool's asyncio.Lock objects, holders and waiters
    ptask,                  \* the coroutines running on the pool, by task
    phist,                  \* observations of the pool's calls
    \* ---- Part IV: client sessions (the Channels consumers)
    consumer,               \* the consumer class serving the session, or "none"
    sess,                   \* the consumer object's fields
    shist                   \* observations of the session's last step

tokVars == <<creds, acct_status, _refresh_attempts, _refresh_in_progress, _locks,
             calls, snap, sched, thist>>

cbVars == <<cb, bhist>>

batchVars == <<stats, batch_configs, bthist>>

qVars == <<queue, high_priority_queue, qhist, batchVars>>

clVars == <<is_connected, connection_state, ws, last_heartbeat, _connection_lock,
           lock_waiters, ctask, chist>>

poolVars == <<pool_impl, max_connections, pool_exists, connections, connected, plock, ptask, phist>>

sessVars == <<consumer, sess, shist>>

partIII == <<poolVars, sessVars>>

vars == <<clock, tokVars, cbVars, qVars, clVars, partIII>>

-----------------------------------------------------------------------------
(* Bounds of the model *)

NCreds == 2        \* credential rows seen by the callers of refresh_token_if_needed
NCalls == 3        \* coroutines one gather may hold
MaxTicks == 1      \* clock advances of the call harness
TickSeconds == 3600
MaxCycles == 4     \* refresh cycles of the scheduler
MaxTierCycles == 31  \* refresh cycles of the scheduler of an empty table

MaxBreakerCalls == 8   \* record_failure calls made on a bare breaker
MaxBreakerTicks == 3   \* clock advances seen by a bare breaker
NormalCapacity == 3    \* deque(maxlen=max_size), max_size = 10000 in the source
HighCapacity == 2      \* deque(maxlen=1000) in the source
MaxAdds == 6           \* MessageQueue.add calls
MaxQueueTicks == 2     \* clock advances seen by a bare queue
NClientTasks == 2      \* coroutines calling into one client at a time
PoolMaxSize == 1       \* max_connections / max_size of a pool, 100 in the settings
NPoolTasks == 1        \* coroutines calling into one pool at a time
MaxPoolCalls == 3      \* get_connection calls made on a pool
MaxPoolTicks == 1      \* clock advances seen by a pool
NPoolIds == 2          \* pool ids in use at a time
NIdTasks == 2          \* coroutines calling get_connection on those pool ids
MaxIdCalls == 4        \* get_connection calls made on those pool ids
MaxBatches == 3        \* batches whose processing time is measured
MaxAdjusts == 8        \* calls of _should_adjust_batch_size
NMixinTasks == 2       \* coroutines calling get_connection on the mixin's pool
MixinMaxSize == 2      \* max_connections of the mixin's pool under its sweeps
MaxClientTicks == 4    \* clock advances of heartbeat_interval seen by a client
MaxSends == 3          \* send_message calls made on a client by its owner
rate_limit == 2        \* RateLimitMixin.rate_limit, 60 in the settings
MaxMessages == 5       \* client messages one session receives
MaxRateTicks == 3      \* clock advances seen by a rate-limited session
MaxSessTicks == 4      \* clock advances of heartbeat_interval seen by a session
NSessions == 2         \* sessions sharing one broker client
NSymbols == 2          \* market-data symbols
MaxSubRequests == 4    \* subscribe and unsubscribe requests

(* Program constants *)

TOKEN_LIFETIME == 4800
REFRESH_THRESHOLD_E4 == 5625      \* REFRESH_THRESHOLD 0.5625, in 1/10000
MAX_RETRY_ATTEMPTS == 3
RETRY_STOP_AFTER == 3
REFRESH_INTERVAL == 120
MAX_TOKENS_PER_BATCH == 50
URGENT_MINUTES == 10
SOON_MINUTES == 20
URGENT_LIMIT == 100
SOON_LIMIT == 200
ALL_LIMIT == 500
circuit_breaker_threshold == 5
circuit_breaker_reset == 60
heartbeat_interval == 15
SECONDS_PER_DAY == 86400
DEFAULT_MAX_AGE == 300
message_batch_size == 100     \* config 'message_batch_size'
STATS_KEEP == 1000            \* measurements _process_messages keeps
METRICS_WINDOW == 100         \* measurements get_performance_metrics averages
SLOW_MS == 500                \* avg_processing_time > 0.5 s
FAST_MS == 100                \* avg_processing_time < 0.1 s
BATCH_SIZE_CAP == 1000        \* min(1000, current_size * 2)
POOL_IDLE_TTL == 300
POOL_REMOVE_AFTER == 600
POOL_REMOVE_IDLE == 300
POOL_REMOVE_MIN_USES == 5
MAX_HEALTH_CHECK_FAILURES == 3
MAX_CONNECTION_ERRORS == 5
ERROR_WINDOW == 60
rate_window == 60

Creds == DOMAIN creds
Tasks == 1..NCalls

-----------------------------------------------------------------------------
(* Part I: TokenService *)

\* refresh_threshold * token_lifetime: 0.5625 * 4800 = 2700 seconds
RefreshThresholdSeconds == (REFRESH_THRESHOLD_E4 * TOKEN_LIFETIME) \div 10000

\* self._refresh_attempts.get(credential_id, 0)
_get_refresh_attempts(c) == _refresh_attempts[c]

\* the attempt counter after _increment_refresh_attempts
_increment_refresh_attempts(att, c) == [att EXCEPT ![c] = att[c] + 1]

\* the attempt counter after _reset_refresh_attempts (the entry is deleted)
_reset_refresh_attempts(att, c) == [att EXCEPT ![c] = 0]

\* the skip test made before the lock is taken
AlreadyInProgress_Never(c) == FALSE

AlreadyInProgress(c) == c \in _refresh_in_progress

\* "if seconds_until_expiry > refresh_threshold_seconds: return True":
\* the value compared is the one computed by the query that built the dict
NoRefreshNeeded_Inverted(sue) == sue <= RefreshThresholdSeconds

NoRefreshNeeded(sue) == sue > RefreshThresholdSeconds

\* "if self._get_refresh_attempts(credential_id) >= MAX_RETRY_ATTEMPTS"
MaxRetriesExceeded_Never(c) == FALSE

MaxRetriesExceeded(c) == _get_refresh_attempts(c) >= MAX_RETRY_ATTEMPTS

\* the UPDATE of _refresh_tradovate_token: new expiry, is_valid = true,
\* refresh_fail_count = 0, last_refresh_error = NULL
UpdateCredential_KeepExpiry(row, exp) ==
    [row EXCEPT !.is_valid = TRUE, !.refresh_fail_count = 0,
                !.last_refresh_error = "NULL"]

UpdateCredential(row, exp) ==
    [row EXCEPT !.expires_at = exp, !.is_valid = TRUE, !.refresh_fail_count = 0,
                !.last_refresh_error = "NULL"]

\* the UPDATE of _handle_max_retries_exceeded on broker_credentials
InvalidateCredential(row) ==
    [row EXCEPT !.is_valid = FALSE, !.last_refresh_error = "Max refresh attempts exceeded"]

IdleCall == [pc |-> "idle", cid |-> 0, sue |-> 0, ret |-> "none", path |-> "none",
             fresh_at_lock |-> FALSE, posts |-> 0]

\* @retry(stop=stop_after_attempt(3)): the decorated function is called again
\* when the attempt just made raised an Exception and fewer than 3 were made
RetryAgain(raised, attempts_made) == raised /\ attempts_made < RETRY_STOP_AFTER

\* The stored row, read when the lock is taken, is further than the threshold
\* from its expiry (observation, read by no action).
FreshAtLock(call) == creds[call.cid].expires_at - clock > RefreshThresholdSeconds

\* the coroutine p returns r having taken path w
Return(p, r, w) == [calls[p] EXCEPT !.pc = "done", !.ret = r, !.path = w]

-----------------------------------------------------------------------------
(* get_active_credentials *)

Min(a, b) == IF a < b THEN a ELSE b

\* One credential of the model stands for MAX_TOKENS_PER_BATCH rows that share
\* their data, so a LIMIT of the query is counted in such units.
LimitOf(tier) ==
    CASE tier = "urgent" -> URGENT_LIMIT \div MAX_TOKENS_PER_BATCH
      [] tier = "soon"   -> SOON_LIMIT \div MAX_TOKENS_PER_BATCH
      [] OTHER           -> ALL_LIMIT \div MAX_TOKENS_PER_BATCH

\* the tier-specific expiration filter
TierFilter(tier, e) ==
    CASE tier = "urgent" -> e <= clock + URGENT_MINUTES * 60
      [] tier = "soon"   -> e > clock + URGENT_MINUTES * 60 /\ e <= clock + SOON_MINUTES * 60
      [] OTHER           -> TRUE

\* WHERE bc.is_valid = true AND ba.is_active = true AND ba.deleted_at IS NULL
\* (the accounts of the model are active and not deleted)
Selected(tier) == {c \in Creds : creds[c].is_valid /\ TierFilter(tier, creds[c].expires_at)}

\* ORDER BY bc.expires_at ASC (rows with equal expiry: by id)
Before(a, b) ==
    \/ creds[a].expires_at < creds[b].expires_at
    \/ creds[a].expires_at = creds[b].expires_at /\ a < b

Rank(S, c) == Cardinality({d \in S : Before(d, c)})

\* the list of dicts returned, each with its calculated seconds_until_expiry
get_active_credentials(tier) ==
    LET S == Selected(tier)
        n == Min(Cardinality(S), LimitOf(tier))
    IN  [i \in 1..n |->
            LET c == CHOOSE d \in S : Rank(S, d) = i - 1
            IN  [id |-> c, seconds_until_expiry |-> creds[c].expires_at - clock]]

-----------------------------------------------------------------------------
(* refresh_token_if_needed *)

AllIdle == \A p \in Tasks : calls[p].pc = "idle"

\* Tasks created by one gather run their first segment in list order, and all
\* of them before any awaited HTTP response is delivered (FIFO ready queue).
\* a refresh whose finally clause leaves the id in the set
FinallyRemove_Skipped(in_progress, c) == in_progress

\* finally: self._refresh_in_progress.remove(credential_id)
FinallyRemove(in_progress, c) == in_progress \ {c}

MyTurn(p) == \A q \in Tasks : q < p => calls[q].pc # "ready"
NoneReady == \A q \in Tasks : calls[q].pc # "ready"

\* First segment of the coroutine: from its entry (or from the wake-up on the
\* lock) to its return or to the await of the broker HTTP call.
Step(p) ==
    LET c == calls[p].cid
        fresh == calls[p].pc = "ready"
    IN
    /\ calls[p].pc \in {"ready", "lockwait"}
    /\ fresh => MyTurn(p)
    /\ ~fresh => _locks[c] = 0
    /\ IF fresh /\ AlreadyInProgress(c)
         THEN \* "Skipping credential - refresh already in progress"
              /\ calls' = [calls EXCEPT ![p] = Return(p, "True", "skip")]
              /\ UNCHANGED <<creds, acct_status, _refresh_attempts,
                             _refresh_in_progress, _locks, thist>>
       ELSE IF _locks[c] # 0
         THEN \* async with lock: the lock is held, the coroutine waits
              /\ calls' = [calls EXCEPT ![p].pc = "lockwait"]
              /\ UNCHANGED <<creds, acct_status, _refresh_attempts,
                             _refresh_in_progress, _locks, thist>>
       ELSE IF NoRefreshNeeded(calls[p].sue)
         THEN \* lock taken, id added, "No refresh needed", finally: id removed
              /\ calls' = [calls EXCEPT ![p] =
                    [Return(p, "True", "fresh") EXCEPT
                        !.fresh_at_lock = FreshAtLock(calls[p])]]
              /\ _refresh_in_progress' = FinallyRemove(_refresh_in_progress, c)
              /\ UNCHANGED <<creds, acct_status, _refresh_attempts, _locks, thist>>
       ELSE IF MaxRetriesExceeded(c)
         THEN \* _handle_max_retries_exceeded, return False
              /\ calls' = [calls EXCEPT ![p] =
                    [Return(p, "False", "maxed") EXCEPT
                        !.fresh_at_lock = FreshAtLock(calls[p])]]
              /\ creds' = [creds EXCEPT ![c] = InvalidateCredential(creds[c])]
              /\ acct_status' = [acct_status EXCEPT ![c] = "token_expired"]
              /\ _refresh_in_progress' = FinallyRemove(_refresh_in_progress, c)
              /\ UNCHANGED <<_refresh_attempts, _locks, thist>>
       ELSE \* _refresh_tradovate_token: the POST to the renew URL is awaited
              /\ calls' = [calls EXCEPT ![p] =
                    [calls[p] EXCEPT !.pc = "http", !.path = "http", !.posts = 1,
                                     !.fresh_at_lock = FreshAtLock(calls[p])]]
              /\ _locks' = [_locks EXCEPT ![c] = p]
              /\ _refresh_in_progress' = _refresh_in_progress \cup {c}
              /\ thist' = [thist EXCEPT !.g_http[c] = @ + 1]
              /\ UNCHANGED <<creds, acct_status, _refresh_attempts>>
    /\ UNCHANGED <<clock, snap, sched>>
    /\ UNCHANGED <<cbVars, qVars, clVars, partIII>>

\* Second segment: the broker HTTP call ends.
\*   "ok"        status 200 with accessToken and expirationTime
\*   "fail"      non-200, a request error or a malformed body: returns False
\*   "cancelled" asyncio.timeout(LOCK_TIMEOUT), which also spans the body,
\*               expires during the await
HttpReturn(p) ==
    LET c == calls[p].cid IN
    /\ calls[p].pc = "http"
    /\ NoneReady
    /\ \E outcome \in {"ok", "fail", "cancelled"} :
        LET exp == clock + TOKEN_LIFETIME
            \* every Exception of a failed attempt is caught inside
            \* _refresh_tradovate_token, which returns False: nothing is raised
            again == outcome = "fail" /\ RetryAgain(FALSE, calls[p].posts)
        IN
        IF again
        THEN /\ calls' = [calls EXCEPT ![p].posts = @ + 1]
             /\ UNCHANGED <<creds, _refresh_attempts, thist, _locks,
                            _refresh_in_progress>>
        ELSE
        /\ creds' = IF outcome = "ok"
                      THEN [creds EXCEPT ![c] = UpdateCredential(creds[c], exp)]
                      ELSE creds
        /\ _refresh_attempts' =
              CASE outcome = "ok"   -> _reset_refresh_attempts(_refresh_attempts, c)
                [] outcome = "fail" -> _increment_refresh_attempts(_refresh_attempts, c)
                [] OTHER            -> _refresh_attempts
        /\ calls' = [calls EXCEPT ![p] =
              Return(p, IF outcome = "ok" THEN "True" ELSE "False", "http")]
        /\ thist' = [thist EXCEPT
              !.g_out[c] = outcome,
              !.lastExp[c] = IF outcome = "ok" THEN exp ELSE @,
              !.consecFails[c] = CASE outcome = "ok"   -> 0
                                   [] outcome = "fail" -> @ + 1
                                   [] OTHER            -> @,
              !.brokerFailed = @ \/ outcome # "ok",
              !.g_success = IF outcome = "ok" THEN @ + 1 ELSE @]
        /\ _locks' = [_locks EXCEPT ![c] = 0]
        /\ _refresh_in_progress' = FinallyRemove(_refresh_in_progress, c)
    /\ UNCHANGED <<clock, acct_status, snap, sched>>
    /\ UNCHANGED <<cbVars, qVars, clVars, partIII>>

-----------------------------------------------------------------------------
(* Callers of refresh_token_if_needed *)

\* a coroutine object created for the dict d
NewCall(d) == [pc |-> "ready", cid |-> d.id, sue |-> d.seconds_until_expiry,
               ret |-> "none", path |-> "none", fresh_at_lock |-> FALSE,
               posts |-> 0]

\* tasks = [self.refresh_token_if_needed(credential) for credential in batch]
\* handed to asyncio.gather
Launch(batch) ==
    /\ calls' = [p \in Tasks |-> IF p <= Len(batch) THEN NewCall(batch[p]) ELSE IdleCall]
    /\ thist' = [thist EXCEPT
          !.g_http = [c \in Creds |-> 0],
          !.g_out = [c \in Creds |-> "none"],
          !.g_success = 0,
          !.lastExp = [c \in Creds |-> -1],
          !.g_due = {batch[i].id : i \in {j \in 1..Len(batch) :
                        /\ batch[j].seconds_until_expiry <= RefreshThresholdSeconds
                        /\ _refresh_attempts[batch[j].id] < MAX_RETRY_ATTEMPTS}}]

\* a gather that returns as soon as one of its calls has returned False
GatherComplete_FirstFailure ==
    \E p \in Tasks : calls[p].pc = "done" /\ calls[p].ret = "False"

GatherComplete ==
    /\ \E p \in Tasks : calls[p].pc = "done"
    /\ \A p \in Tasks : calls[p].pc \in {"idle", "done"}

\* A caller queries the credentials (full scan) and keeps the list.
H_Query ==
    /\ AllIdle
    /\ snap = << >>
    /\ snap' = get_active_credentials("all")
    /\ UNCHANGED <<clock, creds, acct_status, _refresh_attempts, _refresh_in_progress,
                   _locks, calls, sched, thist>>
    /\ UNCHANGED <<cbVars, qVars, clVars, partIII>>

\* The caller gathers up to NCalls concurrent calls, all on one dict of its
\* list (concurrent calls for the same credential id).
H_Gather ==
    /\ AllIdle
    /\ Len(snap) > 0
    /\ \E n \in 1..NCalls : \E i \in 1..Len(snap) :
          Launch([k \in 1..n |-> snap[i]])
    /\ snap' = << >>
    /\ UNCHANGED <<clock, creds, acct_status, _refresh_attempts, _refresh_in_progress,
                   _locks, sched>>
    /\ UNCHANGED <<cbVars, qVars, clVars, partIII>>

\* asyncio.gather returns the results
H_Return ==
    /\ GatherComplete
    /\ calls' = [p \in Tasks |-> IdleCall]
    /\ UNCHANGED <<clock, creds, acct_status, _refresh_attempts, _refresh_in_progress,
                   _locks, snap, sched, thist>>
    /\ UNCHANGED <<cbVars, qVars, clVars, partIII>>

\* time passes
H_Tick ==
    /\ AllIdle
    /\ clock + TickSeconds <= MaxTicks * TickSeconds
    /\ clock' = clock + TickSeconds
    /\ UNCHANGED tokVars
    /\ UNCHANGED <<cbVars, qVars, clVars, partIII>>

\* The credential's owner authenticates again with the broker (OAuth exchange
\* done by the web backend, which shares the database): new token, new expiry.
E_Reauth(c) ==
    /\ creds' = [creds EXCEPT ![c] = UpdateCredential(creds[c], clock + TOKEN_LIFETIME)]
    /\ creds'[c] # creds[c]
    /\ acct_status' = [acct_status EXCEPT ![c] = "active"]
    /\ UNCHANGED <<clock, _refresh_attempts, _refresh_in_progress, _locks, calls,
                   snap, sched, thist>>
    /\ UNCHANGED <<cbVars, qVars, clVars, partIII>>

-----------------------------------------------------------------------------
(* run_until_shutdown / run_refresh_cycle *)

\* current_minute = datetime.utcnow().minute
CurrentMinute(t) == (t \div 60) % 60

\* check_soon = current_minute % 5 == 0 ; check_all = current_minute % 30 == 0
TierDue(tier, t) ==
    CASE tier = "urgent" -> TRUE
      [] tier = "soon"   -> CurrentMinute(t) % 5 = 0
      [] OTHER           -> CurrentMinute(t) % 30 = 0

NextTier(tier) ==
    CASE tier = "urgent" -> "soon"
      [] tier = "soon"   -> "all"
      [] OTHER           -> "end"

\* the urgent tier gathers its whole list; the other tiers gather batches of
\* MAX_TOKENS_PER_BATCH rows (one credential of the model)
BatchLen(tier, list) ==
    IF tier = "urgent" THEN Len(list) ELSE Min(Len(list), 1)

\* The scheduler's position: the tier it is at, the batches of the tier still
\* to gather, the number of the cycle and the last cycle run; the tiers whose
\* query the cycle has issued, and for each tier the number of consecutive
\* finished cycles that did not issue its query; the credentials the cycle's
\* queries selected, those whose call a gather of the cycle returned, and
\* those whose call returned False.
SchedOff ==
    [pc |-> "off", busy |-> FALSE, pending |-> << >>, cycle |-> 0, last |-> 0,
     scanned |-> {}, idle |-> [t \in {"urgent", "soon", "all"} |-> 0],
     selected |-> {}, returned |-> {}, failed |-> {}]

SchedStart(last) == [SchedOff EXCEPT !.pc = "urgent", !.cycle = 1, !.last = last]

\* One tier of run_refresh_cycle: the tier's query and the first gather.
S_Query ==
    /\ sched.pc \in {"urgent", "soon", "all"}
    /\ ~sched.busy
    /\ AllIdle
    /\ LET tier == sched.pc
           list == IF TierDue(tier, clock) THEN get_active_credentials(tier) ELSE << >>
           n    == BatchLen(tier, list)
           due  == IF TierDue(tier, clock) THEN {tier} ELSE {}
       IN  IF Len(list) = 0
             THEN /\ sched' = [sched EXCEPT !.pc = NextTier(tier),
                                            !.scanned = @ \cup due]
                  /\ UNCHANGED <<calls, thist>>
             ELSE /\ Launch(SubSeq(list, 1, n))
                  /\ sched' = [sched EXCEPT !.busy = TRUE,
                                            !.scanned = @ \cup due,
                                            !.selected = @ \cup
                                                {list[i].id : i \in 1..Len(list)},
                                            !.pending = SubSeq(list, n + 1, Len(list))]
    /\ UNCHANGED <<clock, creds, acct_status, _refresh_attempts, _refresh_in_progress,
                   _locks, snap>>
    /\ UNCHANGED <<cbVars, qVars, clVars, partIII>>

\* results = await asyncio.gather(*tasks): the next batch, or the next tier
S_GatherDone ==
    /\ sched.busy
    /\ GatherComplete
    /\ LET results == {p \in Tasks : calls[p].pc = "done"}
           seen == [sched EXCEPT
                      !.returned = @ \cup {calls[p].cid : p \in results},
                      !.failed = @ \cup {calls[p].cid :
                                     p \in {q \in results : calls[q].ret = "False"}}]
       IN  IF Len(sched.pending) > 0
             THEN /\ Launch(SubSeq(sched.pending, 1, 1))
                  /\ sched' = [seen EXCEPT !.pending = Tail(@)]
             ELSE /\ calls' = [p \in Tasks |-> IdleCall]
                  /\ sched' = [seen EXCEPT !.busy = FALSE, !.pc = NextTier(@)]
                  /\ UNCHANGED thist
    /\ UNCHANGED <<clock, creds, acct_status, _refresh_attempts, _refresh_in_progress,
                   _locks, snap>>
    /\ UNCHANGED <<cbVars, qVars, clVars, partIII>>

\* the cycle ends; sleep max(1, REFRESH_INTERVAL - cycle_duration); next cycle
S_NextCycle ==
    /\ sched.pc = "end"
    /\ sched.cycle < sched.last
    /\ clock' = clock + REFRESH_INTERVAL
    /\ sched' = [sched EXCEPT
          !.pc = "urgent", !.cycle = @ + 1, !.scanned = {},
          !.selected = {}, !.returned = {}, !.failed = {},
          !.idle = [t \in DOMAIN @ |-> IF t \in sched.scanned THEN 0 ELSE @[t] + 1]]
    /\ UNCHANGED <<creds, acct_status, _refresh_attempts, _refresh_in_progress, _locks,
                   calls, snap, thist>>
    /\ UNCHANGED <<cbVars, qVars, clVars, partIII>>

-----------------------------------------------------------------------------
(* Specifications of Part I *)

\* the client's history of send_message before any call: the number of calls
\* made, and of the call made in the last step its arguments, the queues it
\* found and what it did
NoSend ==
    [n |-> 0, called |-> FALSE, at |-> 0, high_priority |-> FALSE,
     connected |-> FALSE,
     transmitted |-> FALSE, raised |-> FALSE, high_before |-> << >>,
     normal_before |-> << >>]

\* Part II as constructed, untouched by the specifications of Part I
PartIIInit ==
    /\ cb = [state |-> "CLOSED", failures |-> 0, last_failure_time |-> -1,
             failure_threshold |-> circuit_breaker_threshold,
             reset_timeout |-> circuit_breaker_reset]
    /\ bhist = [consec |-> 0, failTime |-> -1, lastOp |-> "none", lastRet |-> TRUE,
                ticks |-> 0]
    /\ queue = << >>
    /\ high_priority_queue = << >>
    /\ qhist = [adds |-> 0, hp |-> {}, lastOp |-> "none", lastRet |-> [id |-> 0],
                ticks |-> 0]
    /\ stats = << >>
    /\ batch_configs = message_batch_size
    /\ bthist = [n |-> 0, ret |-> "none", pending |-> 0]
    /\ is_connected = FALSE
    /\ connection_state = "DISCONNECTED"
    /\ ws = "none"
    /\ last_heartbeat = -1
    /\ _connection_lock = 0
    /\ lock_waiters = << >>
    /\ chist = [from |-> "DISCONNECTED", was_connected |-> FALSE, trace |-> << >>,
                callbacks |-> << >>, authenticated |-> FALSE, since |-> 0,
                hb_silent |-> FALSE, hb_reconnect |-> FALSE, frame |-> "none",
                saw_malformed |-> FALSE, had_ws |-> FALSE, sent |-> NoSend]

\* the pool's history record before any call
NoPoolCall ==
    [calls |-> 0, op |-> "none", ret |-> 0, was_full |-> FALSE,
     none_available |-> FALSE, new_record |-> FALSE, ret_available |-> TRUE]

\* Part III as constructed with no pool in use
PoolOff ==
    /\ pool_impl = "none"
    /\ max_connections = PoolMaxSize
    /\ pool_exists = FALSE
    /\ connections = << >>
    /\ connected = {}
    /\ plock = [cur |-> 0, made |-> 0, held |-> {}, queue |-> << >>, pgen |-> 0]
    /\ ptask = << >>
    /\ phist = NoPoolCall

\* Part IV as constructed with no session
SessOff ==
    /\ consumer = "none"
    /\ sess = << >>
    /\ shist = << >>

TokInitCommon ==
    /\ PartIIInit
    /\ acct_status = [c \in Creds |-> "active"]
    /\ _refresh_attempts = [c \in Creds |-> 0]
    /\ _refresh_in_progress = {}
    /\ _locks = [c \in Creds |-> 0]
    /\ calls = [p \in Tasks |-> IdleCall]
    /\ snap = << >>
    /\ thist = [g_http |-> [c \in Creds |-> 0], g_out |-> [c \in Creds |-> "none"],
                g_due |-> {}, lastExp |-> [c \in Creds |-> -1],
                consecFails |-> [c \in Creds |-> 0], brokerFailed |-> FALSE,
                g_success |-> 0]

\* Callers of refresh_token_if_needed: credentials 300 s or 6000 s from expiry.
InitToken ==
    /\ clock = 0
    /\ creds \in [1..NCreds -> [expires_at : {300, 6000}, is_valid : {TRUE},
                            refresh_fail_count : {0},
                            last_refresh_error : {"NULL"}]]
    /\ sched = SchedOff
    /\ TokInitCommon
    /\ ctask = << >>
    /\ PoolOff
    /\ SessOff

NextToken ==
    \/ H_Query
    \/ H_Gather
    \/ H_Return
    \/ H_Tick
    \/ \E p \in Tasks : Step(p)
    \/ \E p \in Tasks : HttpReturn(p)

SpecToken == InitToken /\ [][NextToken]_vars

\* the same callers, with the credentials' owners re-authenticating meanwhile
NextReauth ==
    \/ NextToken
    \/ \E c \in Creds : E_Reauth(c)

SpecReauth == InitToken /\ [][NextReauth]_vars

\* the scheduler's credentials: one more than the urgent query returns
SchedCreds == 1..(LimitOf("urgent") + 1)

\* The scheduler, started at minute 28 of the hour; each credential is
\* expired for 300 s, or expires in 300 s, 900 s or 6000 s.
InitSched ==
    /\ clock = 28 * 60
    /\ creds \in [SchedCreds -> [expires_at : {clock - 300, clock + 300, clock + 900, clock + 6000},
                            is_valid : {TRUE}, refresh_fail_count : {0},
                            last_refresh_error : {"NULL"}]]
    /\ sched = SchedStart(MaxCycles)
    /\ TokInitCommon
    /\ ctask = << >>
    /\ PoolOff
    /\ SessOff

NextSched ==
    \/ S_Query
    \/ S_GatherDone
    \/ S_NextCycle
    \/ \E p \in Tasks : Step(p)
    \/ \E p \in Tasks : HttpReturn(p)

SpecSched == InitSched /\ [][NextSched]_vars

\* The scheduler of a service whose credential table is empty, started at the
\* beginning of any minute of the hour.
InitTiers ==
    /\ clock \in {m * 60 : m \in 0..59}
    /\ creds = << >>
    /\ sched = SchedStart(MaxTierCycles)
    /\ TokInitCommon
    /\ ctask = << >>
    /\ PoolOff
    /\ SessOff

NextTiers ==
    \/ S_Query
    \/ S_NextCycle

SpecTiers == InitTiers /\ [][NextTiers]_vars

-----------------------------------------------------------------------------
(* Claims about Part I *)

CallsFor(c) == {p \in Tasks : calls[p].cid = c}

C2_NoRefreshOfFreshCredential ==
    \A p \in Tasks : calls[p].fresh_at_lock => calls[p].path = "fresh"

\* C3 as stated: once max_retry_attempts consecutive refreshes have failed,
\* the credential's is_valid is false.
C3_InvalidAfterMaxFailures ==
    \A c \in Creds : thist.consecFails[c] >= MAX_RETRY_ATTEMPTS => ~creds[c].is_valid

\* C3 amended: once max_retry_attempts consecutive broker calls have failed for
\* a credential, no further broker HTTP call is made for it, and the next call
\* that runs with a due dict for it takes the permanent-failure path, which
\* sets is_valid false and the account status token_expired.
C3_NoCallAfterMaxFailures ==
    [][\A c \in Creds : thist.consecFails[c] >= MAX_RETRY_ATTEMPTS =>
          /\ thist'.g_http[c] <= thist.g_http[c]
          /\ \A p \in Tasks :
                ( /\ calls[p].cid = c
                  /\ calls[p].pc = "ready"
                  /\ calls'[p].pc # "ready"
                  /\ calls[p].sue <= RefreshThresholdSeconds )
                => ( /\ calls'[p].path = "maxed"
                     /\ ~creds'[c].is_valid
                     /\ acct_status'[c] = "token_expired" )]_vars

\* C3 witness: after three failed broker calls a later call was made for the
\* credential and invalidated it.
C3_Witness ==
    \E c \in Creds : \E p \in CallsFor(c) :
        /\ thist.consecFails[c] >= MAX_RETRY_ATTEMPTS
        /\ calls[p].path = "maxed"
        /\ ~creds[c].is_valid

\* C4: while the broker has answered every refresh call successfully, at the
\* start of every cycle after the first no valid credential has an expires_at
\* in the past.
C4_NoExpiredAtCycleStart ==
    ( /\ sched.pc = "urgent"
      /\ ~sched.busy
      /\ sched.cycle > 1
      /\ ~thist.brokerFailed )
    => \A c \in Creds : creds[c].is_valid => creds[c].expires_at >= clock

\* C19: a call that took the permanent-failure path leaves the credential
\* invalid, its account token_expired and the attempt counter of the id
\* cleared.
C19_CounterClearedOnInvalidate ==
    \A p \in Tasks :
        (calls[p].pc = "done" /\ calls[p].path = "maxed") =>
            /\ ~creds[calls[p].cid].is_valid
            /\ acct_status[calls[p].cid] = "token_expired"
            /\ _get_refresh_attempts(calls[p].cid) = 0

\* C20: the step in which a broker call fails raises the attempt counter of
\* the credential by one, records an error on the row and leaves the row's
\* expires_at and is_valid as they were.
C20_FailureRecorded ==
    [][\A p \in Tasks :
          ( /\ calls[p].pc = "http"
            /\ calls'[p].pc = "done"
            /\ thist'.g_out[calls[p].cid] = "fail" )
          => LET c == calls[p].cid
             IN  /\ _refresh_attempts'[c] = _refresh_attempts[c] + 1
                 /\ creds'[c].last_refresh_error # "NULL"
                 /\ creds'[c].expires_at = creds[c].expires_at
                 /\ creds'[c].is_valid = creds[c].is_valid]_vars

\* C21: the step in which a broker call succeeds leaves the attempt counter
\* of the credential at zero, raises the success metric by one and leaves the
\* row valid, with refresh_fail_count 0, last_refresh_error NULL and
\* expires_at the expiration the broker returned.
C21_SuccessResets ==
    [][\A p \in Tasks :
          ( /\ calls[p].pc = "http"
            /\ calls'[p].pc = "done"
            /\ thist'.g_out[calls[p].cid] = "ok" )
          => LET c == calls[p].cid
             IN  /\ _get_refresh_attempts(c)' = 0
                 /\ thist'.g_success = thist.g_success + 1
                 /\ creds'[c].is_valid
                 /\ creds'[c].refresh_fail_count = 0
                 /\ creds'[c].last_refresh_error = "NULL"
                 /\ creds'[c].expires_at = thist'.lastExp[c]]_vars

\* C21 witness: a broker call succeeded after broker calls had failed, and
\* no credential is left with a counted attempt.
C21_Witness ==
    \E c \in Creds :
        /\ thist.g_out[c] = "ok"
        /\ thist.g_success >= 1
        /\ thist.brokerFailed
        /\ \A d \in Creds : _get_refresh_attempts(d) = 0
        /\ creds[c].refresh_fail_count = 0
        /\ creds[c].expires_at = clock + TOKEN_LIFETIME
        /\ clock > 0

\* C22: a call whose broker refresh failed returns only after 3 transport
\* attempts were made, and the attempt counter of the credential grew by one.
C22_TransportRetries ==
    [][\A p \in Tasks :
          ( /\ calls[p].pc = "http"
            /\ calls'[p].pc = "done"
            /\ thist'.g_out[calls[p].cid] = "fail" )
          => /\ calls'[p].posts = RETRY_STOP_AFTER
             /\ _refresh_attempts'[calls[p].cid]
                    <= _refresh_attempts[calls[p].cid] + 1]_vars

\* C23: the LOCK_TIMEOUT never aborts a call that already issued the broker
\* request: every call that issued it and did not succeed is counted in the
\* attempt counter of its credential.
C23_StartedRefreshCounted ==
    [][\A p \in Tasks :
          ( /\ calls[p].pc = "http"
            /\ calls'[p].pc = "done"
            /\ calls'[p].ret = "False" )
          => /\ thist'.g_out[calls[p].cid] = "fail"
             /\ _refresh_attempts'[calls[p].cid]
                    = _refresh_attempts[calls[p].cid] + 1]_vars

\* C24: with cycles REFRESH_INTERVAL apart from any start minute, every
\* cycle issues the urgent query, no 5 consecutive cycles pass without the
\* soon-tier query and no 30 consecutive cycles without the full scan.
C24_TierCadence ==
    /\ sched.idle["urgent"] = 0
    /\ sched.idle["soon"] < 5
    /\ sched.idle["all"] < 30

\* C25: a cycle that is not over can take a step, and at the end of a cycle
\* refresh_token_if_needed has been called and has returned for every
\* credential the cycle's queries selected, whichever of the calls failed.
C25_FailureIsolated ==
    /\ sched.pc \in {"urgent", "soon", "all"} => ENABLED NextSched
    /\ sched.pc = "end" => sched.selected \subseteq sched.returned

\* C25 witness: a cycle ended in which the call of one credential returned
\* False and the call of another credential returned after it was selected.
C25_Witness ==
    /\ sched.pc = "end"
    /\ \E c \in sched.failed : \E d \in sched.selected \ sched.failed :
          d \in sched.returned

-----------------------------------------------------------------------------
(* Part II: strategies/brokers/base/client.py *)

(* CircuitBreaker.  A time is a number of seconds; -1 stands for None. *)

\* timedelta.seconds: the seconds field of a non-negative timedelta, which
\* leaves out whole days
TimedeltaSeconds(d) == d % SECONDS_PER_DAY

record_failure_StrictThreshold(b, now) ==
    LET f == b.failures + 1
    IN  [b EXCEPT !.failures = f,
                  !.last_failure_time = now,
                  !.state = IF f > b.failure_threshold THEN "OPEN" ELSE @]

record_failure(b, now) ==
    LET f == b.failures + 1
    IN  [b EXCEPT !.failures = f,
                  !.last_failure_time = now,
                  !.state = IF f >= b.failure_threshold THEN "OPEN" ELSE @]

record_success(b) == [b EXCEPT !.failures = 0, !.state = "CLOSED"]

\* can_execute returns the answer and the breaker it leaves behind
can_execute(b, now) ==
    CASE b.state = "CLOSED" -> [ret |-> TRUE, cb |-> b]
      [] b.state = "OPEN" ->
            IF TimedeltaSeconds(now - b.last_failure_time) >= b.reset_timeout
            THEN [ret |-> TRUE, cb |-> [b EXCEPT !.state = "HALF-OPEN"]]
            ELSE [ret |-> FALSE, cb |-> b]
      [] OTHER -> [ret |-> TRUE, cb |-> b]

BreakerTicks == {1, circuit_breaker_reset - 1, SECONDS_PER_DAY}

B_RecordFailure ==
    /\ cb.failures < MaxBreakerCalls
    /\ cb' = record_failure(cb, clock)
    /\ bhist' = [bhist EXCEPT !.consec = @ + 1, !.failTime = clock,
                              !.lastOp = "record_failure"]
    /\ UNCHANGED <<clock, tokVars, qVars, clVars, partIII>>

B_RecordSuccess ==
    /\ cb' = record_success(cb)
    /\ bhist' = [bhist EXCEPT !.consec = 0, !.lastOp = "record_success"]
    /\ UNCHANGED <<clock, tokVars, qVars, clVars, partIII>>

B_CanExecute ==
    LET r == can_execute(cb, clock)
    IN  /\ cb' = r.cb
        /\ bhist' = [bhist EXCEPT !.lastOp = "can_execute", !.lastRet = r.ret]
        /\ UNCHANGED <<clock, tokVars, qVars, clVars, partIII>>

B_Tick ==
    /\ bhist.ticks < MaxBreakerTicks
    /\ \E d \in BreakerTicks : clock' = clock + d
    /\ bhist' = [bhist EXCEPT !.ticks = @ + 1, !.lastOp = "tick"]
    /\ UNCHANGED <<tokVars, cb, qVars, clVars, partIII>>

\* A breaker and a queue as constructed; no credential rows
InitPartII ==
    /\ clock = 0
    /\ creds = << >>
    /\ sched = SchedOff
    /\ TokInitCommon
    /\ ctask = << >>
    /\ PoolOff
    /\ SessOff

NextBreaker ==
    \/ B_RecordFailure
    \/ B_RecordSuccess
    \/ B_CanExecute
    \/ B_Tick

SpecBreaker == InitPartII /\ [][NextBreaker]_vars

(* MessageQueue.  An entry is <<time added, message>>. *)

\* deque(maxlen=n).append: the oldest entry is discarded when full
DequeAppend(d, x, maxlen) ==
    LET a == Append(d, x)
    IN  IF Len(a) > maxlen THEN Tail(a) ELSE a

add(hq, q, message, high_priority, now) ==
    IF high_priority
    THEN [high |-> DequeAppend(hq, <<now, message>>, HighCapacity), normal |-> q]
    ELSE [high |-> hq, normal |-> DequeAppend(q, <<now, message>>, NormalCapacity)]

NoMessage == [id |-> 0]

get_next_NormalFirst(hq, q) ==
    IF Len(q) > 0
    THEN [ret |-> Head(q)[2], high |-> hq, normal |-> Tail(q)]
    ELSE IF Len(hq) > 0
         THEN [ret |-> Head(hq)[2], high |-> Tail(hq), normal |-> q]
         ELSE [ret |-> NoMessage, high |-> hq, normal |-> q]

get_next(hq, q) ==
    IF Len(hq) > 0
    THEN [ret |-> Head(hq)[2], high |-> Tail(hq), normal |-> q]
    ELSE IF Len(q) > 0
         THEN [ret |-> Head(q)[2], high |-> hq, normal |-> Tail(q)]
         ELSE [ret |-> NoMessage, high |-> hq, normal |-> q]

Q_Add ==
    /\ qhist.adds < MaxAdds
    /\ \E high_priority \in BOOLEAN :
          LET m == [id |-> qhist.adds + 1]
              r == add(high_priority_queue, queue, m, high_priority, clock)
          IN  /\ high_priority_queue' = r.high
              /\ queue' = r.normal
              /\ qhist' = [qhist EXCEPT !.adds = @ + 1,
                                        !.hp = IF high_priority THEN @ \cup {m.id} ELSE @,
                                        !.lastOp = "add"]
    /\ UNCHANGED <<clock, tokVars, cbVars, batchVars, clVars, partIII>>

Q_GetNext ==
    LET r == get_next(high_priority_queue, queue)
    IN  /\ high_priority_queue' = r.high
        /\ queue' = r.normal
        /\ qhist' = [qhist EXCEPT !.lastOp = "get", !.lastRet = r.ret]
        /\ UNCHANGED <<clock, tokVars, cbVars, batchVars, clVars, partIII>>

NextQueue ==
    \/ Q_Add
    \/ Q_GetNext

SpecQueue == InitPartII /\ [][NextQueue]_vars

\* an entry <<time, message>> is kept by clear_old_messages when the seconds
\* field of its age is below max_age
KeptAt(now, max_age, entry) == TimedeltaSeconds(now - entry[1]) < max_age

RECURSIVE KeepYoung(_, _, _)
KeepYoung(d, now, max_age) ==
    IF d = << >> THEN << >>
    ELSE IF KeptAt(now, max_age, Head(d))
         THEN <<Head(d)>> \o KeepYoung(Tail(d), now, max_age)
         ELSE KeepYoung(Tail(d), now, max_age)

\* clear_old_messages rebuilds self.queue and nothing else
clear_old_messages(hq, q, now, max_age) ==
    [high |-> hq, normal |-> KeepYoung(q, now, max_age)]

Q_ClearOld ==
    LET r == clear_old_messages(high_priority_queue, queue, clock, DEFAULT_MAX_AGE)
    IN  /\ high_priority_queue' = r.high
        /\ queue' = r.normal
        /\ qhist' = [qhist EXCEPT !.lastOp = "clear"]
        /\ UNCHANGED <<clock, tokVars, cbVars, batchVars, clVars, partIII>>

QueueTicks == {1, DEFAULT_MAX_AGE, SECONDS_PER_DAY}

Q_Tick ==
    /\ qhist.ticks < MaxQueueTicks
    /\ \E d \in QueueTicks : clock' = clock + d
    /\ qhist' = [qhist EXCEPT !.ticks = @ + 1, !.lastOp = "tick"]
    /\ UNCHANGED <<tokVars, cbVars, queue, high_priority_queue, batchVars, clVars,
                   partIII>>

\* A queue that is filled, swept and aged
NextSweep ==
    \/ Q_Add
    \/ Q_ClearOld
    \/ Q_Tick

SpecSweep == InitPartII /\ [][NextSweep]_vars

\* ---- adaptive batch sizing: _process_messages records the processing time
\* ---- of each batch, _should_adjust_batch_size moves the ceiling of one
\* ---- message type.  Times are whole milliseconds.

Max(a, b) == IF a > b THEN a ELSE b

RECURSIVE SeqSum(_)
SeqSum(q) == IF q = << >> THEN 0 ELSE Head(q) + SeqSum(Tail(q))

\* q[-n:]
LastN(q, n) == SubSeq(q, Max(1, Len(q) - n + 1), Len(q))

\* the statistics part of _process_messages: append, keep the last 1000
RecordBatch(times, t) ==
    LET appended == Append(times, t)
    IN  IF Len(appended) > STATS_KEEP THEN Tail(appended) ELSE appended

\* get_performance_metrics: the average is kept as sum and count
get_performance_metrics(times) ==
    LET processing_times == LastN(times, METRICS_WINDOW)
    IN  IF processing_times = << >>
        THEN [status |-> "No data available"]
        ELSE [sum |-> SeqSum(processing_times), len |-> Len(processing_times)]

\* _should_adjust_batch_size; pending is the length of the type's batch in
\* current_queue_sizes, -1 when the type has none.  metrics[...] of the
\* record without data raises KeyError.
_should_adjust_batch_size(times, max_size, pending) ==
    LET metrics == get_performance_metrics(times)
    IN  IF "sum" \notin DOMAIN metrics
        THEN [ret |-> "KeyError", max_size |-> max_size]
        ELSE IF metrics.sum > SLOW_MS * metrics.len
        THEN [ret |-> "True", max_size |-> Max(1, max_size \div 2)]
        ELSE IF /\ metrics.sum < FAST_MS * metrics.len
                /\ pending # -1
                /\ pending > max_size
        THEN [ret |-> "True", max_size |-> Min(BATCH_SIZE_CAP, max_size * 2)]
        ELSE [ret |-> "False", max_size |-> max_size]

BatchTimes == {50, 100, 500, 600}

\* one batch has been processed in t milliseconds
ProcessMessages(t) ==
    /\ Len(stats) < MaxBatches
    /\ stats' = RecordBatch(stats, t)
    /\ UNCHANGED <<clock, tokVars, cbVars, queue, high_priority_queue, qhist,
                   batch_configs, bthist, clVars, partIII>>

\* one call of _should_adjust_batch_size
AdjustBatchSize(pending) ==
    /\ bthist.n < MaxAdjusts
    /\ LET r == _should_adjust_batch_size(stats, batch_configs, pending)
       IN  /\ batch_configs' = r.max_size
           /\ bthist' = [n |-> bthist.n + 1, ret |-> r.ret, pending |-> pending]
    /\ UNCHANGED <<clock, tokVars, cbVars, queue, high_priority_queue, qhist,
                   stats, clVars, partIII>>

NextBatch ==
    \/ \E t \in BatchTimes : ProcessMessages(t)
    \/ \E pending \in {-1, batch_configs, batch_configs + 1} :
          AdjustBatchSize(pending)

SpecBatch == InitPartII /\ [][NextBatch]_vars

(* BaseWebSocketClient, with TradovateWebSocketClient's authenticate and
   normalisation.  A coroutine runs from one suspension point to the next as
   one step.  Within a step the client is carried in a record S:
     ic, cs, ws, lh, cb, lock, waiters, q   the client's fields
     task, me        the running coroutine and its task id
     grant           the waiter the lock was handed to, 0 for none
     trace           the connection_state assignments made, <<value, method>>
     callbacks       the callbacks invoked
     authenticated   authenticate() has succeeded on the current transport
     since           time of the last heartbeat frame or, if later, of connecting
     hb_silent, hb_reconnect   what the heartbeat check of this step saw and did *)

CTasks == DOMAIN ctask

\* a coroutine's position, whether it runs reconnect() (rc) or the heartbeat
\* loop's reconnect() (hb), the end of its sleep, whether can_execute() let
\* its connect() through on a HALF-OPEN breaker, and the breaker's failure
\* count when its connect() was let through (kept until authenticate() ends)
IdleTask == [pc |-> "idle", rc |-> FALSE, hb |-> FALSE, wake |-> -1,
             probe |-> FALSE, f0 |-> 0]

ClientState(t) ==
    [ic |-> is_connected, cs |-> connection_state, ws |-> ws, lh |-> last_heartbeat,
     cb |-> cb, lock |-> _connection_lock, waiters |-> lock_waiters, q |-> queue,
     task |-> IF t \in CTasks THEN ctask[t] ELSE IdleTask, me |-> t, grant |-> 0, trace |-> << >>, callbacks |-> << >>,
     authenticated |-> chist.authenticated, since |-> chist.since,
     hb_silent |-> FALSE, hb_reconnect |-> FALSE, frame |-> "none",
     saw_malformed |-> chist.saw_malformed]

\* the step's outcome becomes the next state
Commit(S) ==
    /\ is_connected' = S.ic
    /\ connection_state' = S.cs
    /\ ws' = S.ws
    /\ last_heartbeat' = S.lh
    /\ cb' = S.cb
    /\ _connection_lock' = S.lock
    /\ lock_waiters' = S.waiters
    /\ queue' = S.q
    /\ ctask' = [u \in CTasks |->
                    IF u = S.me THEN S.task
                    ELSE IF u = S.grant THEN [ctask[u] EXCEPT !.pc = "locked"]
                    ELSE ctask[u]]
    /\ chist' = [from |-> connection_state, was_connected |-> is_connected,
                 trace |-> S.trace, callbacks |-> S.callbacks,
                 authenticated |-> S.authenticated, since |-> S.since,
                 hb_silent |-> S.hb_silent, hb_reconnect |-> S.hb_reconnect,
                 frame |-> S.frame, saw_malformed |-> S.saw_malformed,
                 had_ws |-> ws # "none",
                 sent |-> [NoSend EXCEPT !.n = chist.sent.n]]
    /\ UNCHANGED <<clock, tokVars, bhist, high_priority_queue, qhist, batchVars,
                   partIII>>

SetState(S, v, by) ==
    [S EXCEPT !.cs = v, !.trace = Append(@, <<v, by>>)]

\* a callback invoked with an argument, and one invoked without
CallbackWith(S, name, arg) ==
    [S EXCEPT !.callbacks = Append(@, [name |-> name, arg |-> arg])]

Callback(S, name) == CallbackWith(S, name, [raw |-> "none"])

\* send_message when the message cannot be sent: it is queued
QueueMessage(S, type) ==
    [S EXCEPT !.q = add(<< >>, @, [type |-> type], FALSE, clock).normal]

\* leaving "async with self._connection_lock": the first waiter gets the lock
Release(S) ==
    IF S.waiters = << >>
    THEN [S EXCEPT !.lock = 0]
    ELSE [S EXCEPT !.lock = Head(S.waiters), !.waiters = Tail(@),
                   !.grant = Head(S.waiters)]

\* the coroutine's outermost call has returned or raised to its caller
Done(S) == [S EXCEPT !.task = IdleTask]

\* connect() returned normally: inside reconnect(), on_reconnect follows
connect_returned(S) ==
    IF S.task.rc THEN Done(Callback(S, "onReconnect")) ELSE Done(S)

\* start_heartbeat() found is_connected false: connect() goes on to on_connect
\* and leaves the lock
hb_exit(S) == connect_returned(Release(Callback(S, "onConnect")))

RECURSIVE hb_loop(_)

\* connect() raised: reconnect() swallows it; a reconnect() made by the
\* heartbeat loop returns into the loop
ConnectRaised(S) ==
    IF S.task.hb THEN hb_loop([S EXCEPT !.task.hb = FALSE]) ELSE Done(S)

\* connect() from the lock on, up to the await of websockets.connect
connect_locked(S) ==
    IF S.ic
    THEN connect_returned(Release(S))
    ELSE [SetState(S, "CONNECTING", "connect") EXCEPT !.task.pc = "opening"]

\* connect() up to the lock: the breaker is asked before the lock is taken
connect_gate(S) ==
    LET r == can_execute(S.cb, clock)
        S1 == [S EXCEPT !.cb = r.cb,
                        !.task.probe = r.ret /\ r.cb.state = "HALF-OPEN",
                        !.task.f0 = IF r.ret THEN r.cb.failures ELSE 0]
    IN  IF ~r.ret THEN ConnectRaised(S1)
        ELSE IF S1.lock = 0 THEN connect_locked([S1 EXCEPT !.lock = S.me])
        ELSE [S1 EXCEPT !.task.pc = IF S1.lock = S.me THEN "stuck" ELSE "lockwait",
                        !.waiters = Append(@, S.me)]

\* connect()'s except clause
connect_failed(S) ==
    LET S1 == SetState(S, "DISCONNECTED", "connect")
    IN  ConnectRaised(Release([S1 EXCEPT !.cb = record_failure(@, clock),
                                         !.task.probe = FALSE,
                                         !.task.f0 = 0]))

\* disconnect() after the transport is closed, and what follows it in
\* reconnect()
disconnect_end(S) ==
    LET S1 == Callback(S, "onDisconnect")
    IN  IF S1.task.rc \/ S1.task.hb THEN connect_gate(S1) ELSE Done(S1)

\* disconnect() up to the await of ws.close()
disconnect_begin(S) ==
    LET S1 == SetState([S EXCEPT !.ic = FALSE], "DISCONNECTED", "disconnect")
    IN  IF S1.ws # "none"
        THEN [S1 EXCEPT !.task.pc = "closing"]
        ELSE disconnect_end(S1)

reconnect(S) == disconnect_begin(SetState(S, "RECONNECTING", "reconnect"))

\* start_heartbeat(): the loop test, the heartbeat send and the sleep
hb_loop(S) ==
    IF ~S.ic THEN hb_exit(S)
    ELSE IF S.ws = "none"
         THEN reconnect([QueueMessage(S, "heartbeat") EXCEPT !.task.hb = TRUE])
         ELSE [S EXCEPT !.task.pc = "hb_sleep",
                        !.task.wake = clock + heartbeat_interval]

handle_close(S) ==
    LET S1 == SetState([S EXCEPT !.ic = FALSE], "DISCONNECTED", "handle_close")
    IN  reconnect([Callback(S1, "onDisconnect") EXCEPT !.task.rc = TRUE])

(* Frames.  A frame is malformed (not JSON), JSON that is no object (an
   array), a heartbeat object, or another JSON object, named here by its 'e'
   field.  The callbacks are taken to be registered. *)
Frames == {"malformed", "json_array", "heartbeat", "market_data", "props"}

get_message_type(frame) == frame

\* normalize_message: the types with a normalizer are rebuilt in the standard
\* form, the others pass through unchanged
normalize_message(message_type, frame) ==
    IF message_type \in {"market_data", "position", "order", "fill", "account"}
    THEN [type |-> message_type, source |-> "tradovate"]
    ELSE [raw |-> frame]

handle_message_ErrorOnBadJson(S, frame) ==
    IF frame = "malformed" THEN Callback(S, "onError")
    ELSE IF frame = "json_array"
    THEN CallbackWith(S, "onError", [raw |-> "AttributeError"])
    ELSE IF frame = "heartbeat"
    THEN LET S1 == [S EXCEPT !.lh = clock, !.since = clock]
         IN  IF ~S1.ic THEN QueueMessage(S1, "heartbeat_response") ELSE S1
    ELSE CallbackWith(S, "onMessage",
                      normalize_message(get_message_type(frame), frame))

handle_message(S, frame) ==
    IF frame = "malformed" THEN S
    ELSE IF frame = "json_array"
    THEN CallbackWith(S, "onError", [raw |-> "AttributeError"])
    ELSE IF frame = "heartbeat"
    THEN LET S1 == [S EXCEPT !.lh = clock, !.since = clock]
         IN  IF ~S1.ic THEN QueueMessage(S1, "heartbeat_response") ELSE S1
    ELSE CallbackWith(S, "onMessage",
                      normalize_message(get_message_type(frame), frame))

(* The client's steps *)

StartConnect(t) ==
    /\ ctask[t].pc = "idle"
    /\ Commit(connect_gate(ClientState(t)))

StartDisconnect(t) ==
    /\ ctask[t].pc = "idle"
    /\ Commit(disconnect_begin(ClientState(t)))

\* the transport reports that it was closed
HandleClose(t) ==
    /\ ctask[t].pc = "idle"
    /\ ws = "open"
    /\ Commit(handle_close(ClientState(t)))

LockGranted(t) ==
    /\ ctask[t].pc = "locked"
    /\ Commit(connect_locked(ClientState(t)))

\* websockets.connect returned or raised; on success connect() goes on to
\* authenticate(), which sends the authorize message and awaits the answer
Opened(t) ==
    /\ ctask[t].pc = "opening"
    /\ \E ok \in BOOLEAN :
          LET S == ClientState(t)
          IN  IF ok
              THEN LET S1 == [S EXCEPT !.ws = "open", !.ic = TRUE,
                                       !.authenticated = FALSE, !.since = clock]
                       S2 == SetState(S1, "CONNECTED", "connect")
                   IN  Commit([S2 EXCEPT !.cb = record_success(@),
                                         !.task.probe = FALSE,
                                         !.task.pc = "auth"])
              ELSE Commit(connect_failed(S))

\* the answer to the authorize message; on success the account subscription
\* is sent and the heartbeat loop starts inside connect()
AuthDone(t) ==
    /\ ctask[t].pc = "auth"
    /\ \E ok \in BOOLEAN :
          LET S == ClientState(t)
          IN  IF ~ok THEN Commit(connect_failed(S))
              ELSE IF ~S.ic
                   THEN Commit(hb_loop([QueueMessage(S, "subscribe")
                                           EXCEPT !.authenticated = TRUE,
                                                  !.task.f0 = 0]))
              ELSE IF S.ws = "none"
                   THEN Commit(connect_failed(QueueMessage(S, "subscribe")))
              ELSE Commit(hb_loop([S EXCEPT !.authenticated = TRUE,
                                            !.task.f0 = 0]))

\* the heartbeat loop after its sleep: the missed-heartbeat check
HbWake(t) ==
    /\ ctask[t].pc = "hb_sleep"
    /\ clock >= ctask[t].wake
    /\ LET S0 == ClientState(t)
           S == [S0 EXCEPT !.hb_silent =
                     /\ S0.ic
                     /\ S0.cs = "CONNECTED"
                     /\ clock - S0.since > 2 * heartbeat_interval]
       IN  IF /\ S.lh # -1
              /\ TimedeltaSeconds(clock - S.lh) > heartbeat_interval * 2
           THEN Commit(reconnect([S EXCEPT !.task.hb = TRUE, !.hb_reconnect = TRUE]))
           ELSE Commit(hb_loop(S))

\* ws.close() returned inside disconnect()
CloseDone(t) ==
    /\ ctask[t].pc = "closing"
    /\ Commit(disconnect_end([ClientState(t) EXCEPT !.ws = "none"]))

\* the transport delivers a frame to a connected client; the handler runs as
\* task 0, which is no coroutine of ctask
HandleMessage ==
    /\ ws = "open"
    /\ is_connected
    /\ \E frame \in Frames :
          LET S == [ClientState(0) EXCEPT !.frame = frame,
                       !.saw_malformed = @ \/ frame = "malformed"]
          IN  Commit(handle_message(S, frame))

\* send_message: the queues it leaves, whether the message went out on the
\* transport and whether WebSocketMessageError was raised.  transport_ok is
\* the outcome of ws.send.
send_message_DropOnFailure(hq, q, client_connected, transport_ok, message, high_priority, now) ==
    LET queued == add(hq, q, message, high_priority, now)
    IN  IF ~client_connected
        THEN [high |-> queued.high, normal |-> queued.normal,
              transmitted |-> FALSE, raised |-> FALSE]
        ELSE [high |-> hq, normal |-> q, transmitted |-> transport_ok,
              raised |-> ~transport_ok]

send_message(hq, q, client_connected, transport_ok, message, high_priority, now) ==
    LET queued == add(hq, q, message, high_priority, now)
    IN  IF ~client_connected
        THEN [high |-> queued.high, normal |-> queued.normal,
              transmitted |-> FALSE, raised |-> FALSE]
        ELSE IF transport_ok
        THEN [high |-> hq, normal |-> q, transmitted |-> TRUE, raised |-> FALSE]
        ELSE [high |-> queued.high, normal |-> queued.normal,
              transmitted |-> FALSE, raised |-> TRUE]

\* the client's owner sends a message
SendMessage ==
    /\ chist.sent.n < MaxSends
    /\ \E high_priority \in BOOLEAN, ok \in BOOLEAN :
          LET r == send_message(high_priority_queue, queue, is_connected,
                                ws = "open" /\ ok, [type |-> "order"],
                                high_priority, clock)
          IN  /\ high_priority_queue' = r.high
              /\ queue' = r.normal
              /\ chist' = [chist EXCEPT
                     !.from = connection_state, !.was_connected = is_connected,
                     !.had_ws = ws # "none", !.trace = << >>,
                     !.callbacks = << >>, !.hb_silent = FALSE,
                     !.hb_reconnect = FALSE, !.frame = "none",
                     !.sent = [n |-> chist.sent.n + 1, called |-> TRUE,
                               at |-> clock,
                               high_priority |-> high_priority,
                               connected |-> is_connected,
                               transmitted |-> r.transmitted,
                               raised |-> r.raised,
                               high_before |-> high_priority_queue,
                               normal_before |-> queue]]
    /\ UNCHANGED <<clock, tokVars, cbVars, qhist, batchVars, is_connected,
                   connection_state,
                   ws, last_heartbeat, _connection_lock, lock_waiters, ctask,
                   partIII>>


\* time passes, heartbeat_interval seconds at a time; a sleeping heartbeat loop
\* wakes on time, and the wait for the authorize answer (10 s at most) is over
\* before that much time has passed
C_Tick ==
    /\ clock + heartbeat_interval <= MaxClientTicks * heartbeat_interval
    /\ \A t \in CTasks : ctask[t].pc = "hb_sleep" => clock < ctask[t].wake
    /\ \A t \in CTasks : ctask[t].pc # "auth"
    /\ clock' = clock + heartbeat_interval
    /\ UNCHANGED <<tokVars, cbVars, qVars, clVars, partIII>>

InitClient ==
    /\ clock = 0
    /\ creds = << >>
    /\ sched = SchedOff
    /\ TokInitCommon
    /\ ctask = [t \in 1..NClientTasks |-> IdleTask]
    /\ PoolOff
    /\ SessOff

NextClient ==
    \/ \E t \in CTasks : StartConnect(t)
    \/ \E t \in CTasks : StartDisconnect(t)
    \/ \E t \in CTasks : HandleClose(t)
    \/ \E t \in CTasks : LockGranted(t)
    \/ \E t \in CTasks : Opened(t)
    \/ \E t \in CTasks : AuthDone(t)
    \/ \E t \in CTasks : HbWake(t)
    \/ \E t \in CTasks : CloseDone(t)
    \/ C_Tick

SpecClient == InitClient /\ [][NextClient]_vars

\* One coroutine at a time on the client, and the frames its transport delivers
InitFrames ==
    /\ clock = 0
    /\ creds = << >>
    /\ sched = SchedOff
    /\ TokInitCommon
    /\ ctask = [t \in {1} |-> IdleTask]
    /\ PoolOff
    /\ SessOff

NextFrames ==
    \/ StartConnect(1)
    \/ StartDisconnect(1)
    \/ HandleClose(1)
    \/ Opened(1)
    \/ AuthDone(1)
    \/ HbWake(1)
    \/ CloseDone(1)
    \/ HandleMessage
    \/ C_Tick

SpecFrames == InitFrames /\ [][NextFrames]_vars

\* One coroutine at a time on the client, and its owner's send_message calls
NextSend ==
    \/ StartConnect(1)
    \/ StartDisconnect(1)
    \/ HandleClose(1)
    \/ Opened(1)
    \/ AuthDone(1)
    \/ HbWake(1)
    \/ CloseDone(1)
    \/ SendMessage
    \/ C_Tick

SpecSend == InitFrames /\ [][NextSend]_vars

-----------------------------------------------------------------------------
(* Claims about Part II *)

\* C5: after failure_threshold consecutive record_failure() calls with no
\* record_success() in between, and while less than reset_timeout seconds
\* have passed since the last of them, the breaker is OPEN and a can_execute()
\* call returns false.
C5_OpenAfterThreshold ==
    ( /\ bhist.consec >= cb.failure_threshold
      /\ clock - bhist.failTime < cb.reset_timeout )
    => /\ cb.state = "OPEN"
       /\ bhist.lastOp = "can_execute" => ~bhist.lastRet

\* C5 witness: the fifth failure in a row was recorded and can_execute() was
\* refused 59 seconds later.
C5_Witness ==
    /\ bhist.consec = cb.failure_threshold
    /\ clock - bhist.failTime = cb.reset_timeout - 1
    /\ bhist.lastOp = "can_execute"
    /\ ~bhist.lastRet
    /\ cb.state = "OPEN"

\* C26: a can_execute() call on an OPEN breaker made reset_timeout seconds or
\* more after the last failure, however long after, returns true and leaves
\* the breaker HALF-OPEN.
C26_ResetAfterAnyElapsed ==
    [][( /\ cb.state = "OPEN"
         /\ clock - cb.last_failure_time >= cb.reset_timeout
         /\ bhist'.lastOp = "can_execute"
         /\ clock' = clock )
       => /\ bhist'.lastRet
          /\ cb'.state = "HALF-OPEN"]_vars

\* connect() calls that can_execute() has let through on a HALF-OPEN breaker
\* and whose attempt has recorded neither a success nor a failure yet
PastGate ==
    {t \in CTasks : /\ ctask[t].probe
                    /\ ctask[t].pc \in {"lockwait", "locked", "opening"}}

\* C27: while the breaker is HALF-OPEN and the probe's outcome is not yet
\* recorded, at most one connect() has passed the can_execute gate.
C27_OneProbe ==
    cb.state = "HALF-OPEN" => Cardinality(PastGate) <= 1

\* C28: the step in which a connect() fails, at whichever of its steps,
\* leaves the breaker's failure count one above the count the connect() found.
C28_FailureCounted ==
    [][\A t \in CTasks :
          ( /\ ctask[t].pc \in {"opening", "auth"}
            /\ <<"DISCONNECTED", "connect">> \in
                  {chist'.trace[i] : i \in 1..Len(chist'.trace)} )
          => cb'.failures = ctask[t].f0 + 1]_vars

\* C29: once authenticate() has succeeded and the heartbeat loop is started,
\* connect() has left the connection lock, and on_connect is only ever
\* invoked on a client that is connected.
C29_ConnectReturns ==
    /\ \A t \in CTasks : ctask[t].pc = "hb_sleep" => _connection_lock # t
    /\ \A i \in 1..Len(chist.callbacks) :
          chist.callbacks[i].name = "onConnect" =>
              is_connected /\ connection_state = "CONNECTED"

\* C30: no reconnect() waits forever on the connection lock: the coroutine
\* that holds the lock is never itself among those waiting for it.
C30_ReconnectTerminates ==
    \A i \in 1..Len(lock_waiters) : lock_waiters[i] # _connection_lock

QueuedIds(d) == {d[i][2].id : i \in 1..Len(d)}

MinOf(S) == CHOOSE x \in S : \A y \in S : x <= y

\* C10: get_next() returns a normal-priority message only when no
\* high-priority message is queued, returns of the queued messages of that
\* priority the one added first, and returns nothing only when both queues
\* are empty.
C10_PriorityThenFifo ==
    [][qhist'.lastOp = "get" =>
          LET r == qhist'.lastRet
              hi == QueuedIds(high_priority_queue)
              lo == QueuedIds(queue)
          IN  /\ r = NoMessage <=> (hi = {} /\ lo = {})
              /\ (r # NoMessage /\ r.id \notin qhist.hp) =>
                    (hi = {} /\ r.id = MinOf(lo))
              /\ (r # NoMessage /\ r.id \in qhist.hp) => r.id = MinOf(hi)]_vars

\* C10 witness: a normal message was returned after a high-priority message
\* that had been added later than it.
C10_Witness ==
    /\ qhist.lastOp = "get"
    /\ qhist.lastRet # NoMessage
    /\ qhist.lastRet.id \notin qhist.hp
    /\ \E h \in qhist.hp : h > qhist.lastRet.id
    /\ Len(queue) > 0

\* C6: whoever calls record_failure, record_success and can_execute,
\* overlapping connect() calls of one client included, the breaker's state
\* changes only from CLOSED to OPEN, from OPEN to HALF-OPEN, from HALF-OPEN to
\* CLOSED and from HALF-OPEN to OPEN.
C6_BreakerEdges ==
    [][cb'.state # cb.state =>
          <<cb.state, cb'.state>> \in {<<"CLOSED", "OPEN">>, <<"OPEN", "HALF-OPEN">>,
                                      <<"HALF-OPEN", "CLOSED">>, <<"HALF-OPEN", "OPEN">>}]_vars

\* the i-th connection_state assignment of the last step: old value, new
\* value and the method that made it
StateEdge(i) ==
    [old |-> IF i = 1 THEN chist.from ELSE chist.trace[i - 1][1],
     new |-> chist.trace[i][1],
     by  |-> chist.trace[i][2]]

\* C7: connection_state changes only from DISCONNECTED to CONNECTING, from
\* CONNECTING to CONNECTED once authenticate() has succeeded, from CONNECTED to
\* RECONNECTING, from RECONNECTING to CONNECTED and to DISCONNECTED.  Every
\* move to DISCONNECTED is accepted here, whichever method makes it.
C7_StateEdges ==
    \A i \in 1..Len(chist.trace) :
        LET e == StateEdge(i)
        IN  e.old # e.new =>
              \/ <<e.old, e.new>> \in {<<"DISCONNECTED", "CONNECTING">>,
                                      <<"CONNECTED", "RECONNECTING">>,
                                      <<"RECONNECTING", "CONNECTED">>}
              \/ <<e.old, e.new>> = <<"CONNECTING", "CONNECTED">> /\ chist.authenticated
              \/ e.new = "DISCONNECTED"

\* C8: when the heartbeat loop makes its check on a connected client in state
\* CONNECTED for which no heartbeat frame was recorded for more than
\* 2 x heartbeat_interval (none at all since connecting included), it calls
\* reconnect(), which moves the client to RECONNECTING.
C8_SilenceReconnects ==
    chist.hb_silent =>
        /\ chist.hb_reconnect
        /\ \E i \in 1..Len(chist.trace) :
              StateEdge(i).old = "CONNECTED" /\ StateEdge(i).new = "RECONNECTING"

C17_DisconnectIdempotent ==
    ( /\ chist.trace = << <<"DISCONNECTED", "disconnect">> >>
      /\ chist.from = "DISCONNECTED"
      /\ ~chist.was_connected
      /\ ~chist.had_ws )
        => chist.callbacks = << >>

\* the queue a message of the given priority belongs to, now and before
\* the send_message call of the last step
MatchingQueue(high_priority) ==
    IF high_priority THEN high_priority_queue ELSE queue

MatchingBefore(high_priority) ==
    IF high_priority THEN chist.sent.high_before ELSE chist.sent.normal_before

\* the send_message call of the last step put its message at the end of the
\* queue matching its priority and left the other queue alone
Enqueued ==
    LET hp == chist.sent.high_priority
        cur == MatchingQueue(hp)
        was == MatchingBefore(hp)
        cap == IF hp THEN HighCapacity ELSE NormalCapacity
    IN  /\ Len(cur) = (IF Len(was) < cap THEN Len(was) + 1 ELSE cap)
        /\ cur[Len(cur)] = <<chist.sent.at, [type |-> "order"]>>
        /\ \A i \in 1..(Len(cur) - 1) : cur[i] = was[i + Len(was) + 1 - Len(cur)]
        /\ MatchingQueue(~hp) = MatchingBefore(~hp)

\* C18: send_message on a client that is not connected queues the message
\* by its priority and transmits nothing; on a connected client a failed
\* transmit queues the message by its priority and raises the message error,
\* and a successful transmit leaves both queues as they were.
C18_SendMessage ==
    chist.sent.called =>
        /\ ~chist.sent.connected =>
              Enqueued /\ ~chist.sent.transmitted /\ ~chist.sent.raised
        /\ (chist.sent.connected /\ ~chist.sent.transmitted) =>
              Enqueued /\ chist.sent.raised
        /\ chist.sent.transmitted =>
              /\ ~chist.sent.raised
              /\ high_priority_queue = chist.sent.high_before
              /\ queue = chist.sent.normal_before

\* C18 witness: a transmit failed on a connected client whose normal queue
\* held a message already, and the message was queued and the error raised.
C18_Witness ==
    /\ chist.sent.called
    /\ chist.sent.connected
    /\ chist.sent.raised
    /\ ~chist.sent.high_priority
    /\ Len(chist.sent.normal_before) > 0
    /\ Len(queue) = Len(chist.sent.normal_before) + 1

-----------------------------------------------------------------------------
(* Part III: strategies/consumers/mixins.py (ConnectionPoolMixin) and
   strategies/consumers/manager.py (ConnectionPool), for one pool id.

   pool['connections'] is a dict: a sequence of records in insertion order,
   each with its key id.  A connection object is a number; its is_connected
   attribute is membership in connected.  plock holds the lock objects:
     cur    the lock registered for the pool id (0: none), made the last one
            created, held the locks that are held, queue the waiters
     pgen   the pool dict now registered in self.pools (counts the dicts made)
   A coroutine keeps the lock object and the pool dict it started with. *)

PTasks == DOMAIN ptask

IdlePoolTask ==
    [pc |-> "idle", op |-> "none", gen |-> 0, pgen |-> 0, conn_id |-> 0,
     arg |-> 0, to_remove |-> << >>]

Keys(cs) == {cs[i].id : i \in 1..Len(cs)}

IndexOf(cs, id) == CHOOSE i \in 1..Len(cs) : cs[i].id = id

\* d[id] = rec: an existing key keeps its place
Put(cs, id, rec) ==
    IF id \in Keys(cs)
    THEN [i \in 1..Len(cs) |-> IF cs[i].id = id THEN rec ELSE cs[i]]
    ELSE Append(cs, rec)

\* del d[id], nothing when the key is absent
Del(cs, id) == SelectSeq(cs, LAMBDA r : r.id # id)

_is_connection_available(cd, now) ==
    /\ cd.is_active
    /\ cd.connection \in connected
    /\ TimedeltaSeconds(now - cd.last_used) < POOL_IDLE_TTL

_is_connection_healthy(cd, now) ==
    IF cd.health_check_failures > MAX_HEALTH_CHECK_FAILURES THEN FALSE
    ELSE IF /\ cd.errors > MAX_CONNECTION_ERRORS
            /\ TimedeltaSeconds(now - cd.last_error) < ERROR_WINDOW
         THEN FALSE
         ELSE /\ cd.connection \in connected
              /\ TimedeltaSeconds(now - cd.last_used) < POOL_IDLE_TTL

_should_remove_connection(cd, current_time) ==
    LET inactive_time == TimedeltaSeconds(current_time - cd.last_used)
    IN  \/ ~cd.is_active
        \/ cd.connection \notin connected
        \/ inactive_time > POOL_REMOVE_AFTER
        \/ (inactive_time > POOL_REMOVE_IDLE /\ cd.use_count < POOL_REMOVE_MIN_USES)

\* the predicate get_connection applies to an existing record
Usable(cd, now) ==
    IF pool_impl = "mixin" THEN _is_connection_available(cd, now)
    ELSE _is_connection_healthy(cd, now)

\* index of the first record the loop over the dict accepts, 0 for none
FirstUsable(cs, now) ==
    IF \E i \in 1..Len(cs) : Usable(cs[i], now)
    THEN CHOOSE i \in 1..Len(cs) :
            /\ Usable(cs[i], now)
            /\ \A j \in 1..(i - 1) : ~Usable(cs[j], now)
    ELSE 0

\* sorted(values, key=(use_count, errors))[0]: the first of the least loaded
_get_least_loaded_connection(cs) ==
    IF cs = << >> THEN 0
    ELSE LET Less(a, b) == \/ a.use_count < b.use_count
                           \/ (a.use_count = b.use_count /\ a.errors < b.errors)
             i == CHOOSE k \in 1..Len(cs) :
                     /\ \A j \in 1..Len(cs) : ~Less(cs[j], cs[k])
                     /\ \A j \in 1..(k - 1) : Less(cs[k], cs[j])
         IN  i

NewRecord(id, connection, now) ==
    [id |-> id, connection |-> connection, created_at |-> now, last_used |-> now,
     use_count |-> 1, is_active |-> TRUE, errors |-> 0, last_error |-> -1,
     health_check_failures |-> 0]

PoolHasRoom_OneTooMany(cs) == Len(cs) <= max_connections

\* "if len(pool['connections']) < max"
PoolHasRoom(cs) == Len(cs) < max_connections

(* The locks *)

\* first waiter for lock g in the queue, 0 for none
FirstWaiter(L, g) ==
    IF \E i \in 1..Len(L.queue) : L.queue[i][2] = g
    THEN CHOOSE i \in 1..Len(L.queue) :
            /\ L.queue[i][2] = g
            /\ \A j \in 1..(i - 1) : L.queue[j][2] # g
    ELSE 0

\* "async with lock": taken at once when free, else the coroutine waits
Acquire(L, t, g) ==
    IF g \in L.held
    THEN [L EXCEPT !.queue = Append(@, <<t, g>>)]
    ELSE [L EXCEPT !.held = @ \cup {g}]

\* leaving "async with lock": the first waiter of that lock object gets it
ReleaseLock(L, g) ==
    LET i == FirstWaiter(L, g)
    IN  IF i = 0 THEN [L EXCEPT !.held = @ \ {g}]
        ELSE [L EXCEPT !.queue = SubSeq(@, 1, i - 1) \o SubSeq(@, i + 1, Len(@))]

GrantedTo(L, g) ==
    LET i == FirstWaiter(L, g) IN IF i = 0 THEN -1 ELSE L.queue[i][1]

\* the coroutine t ends (or goes on as nt), leaving lock g
FinishTask(t, nt, g) ==
    /\ plock' = ReleaseLock(plock, g)
    /\ ptask' = [u \in PTasks |->
                    IF u = t THEN nt
                    ELSE IF u = GrantedTo(plock, g) THEN [ptask[u] EXCEPT !.pc = "granted"]
                    ELSE ptask[u]]

\* a coroutine calls an operation that begins by taking the pool's lock
EnterLocked(t, op, arg, L) ==
    /\ plock' = Acquire(L, t, L.cur)
    /\ ptask' = [ptask EXCEPT ![t] =
                    [IdlePoolTask EXCEPT !.pc = IF L.cur \in L.held THEN "wait"
                                                ELSE "granted",
                                         !.op = op, !.gen = L.cur, !.arg = arg]]

poolRest == <<tokVars, cbVars, qVars, clVars, sessVars>>

(* The pool's steps *)

\* get_connection is called: the mixin makes the pool id's lock if there is
\* none; the number of the call names the connection object it may construct
PoolGet(t) ==
    /\ pool_impl # "none"
    /\ ptask[t].pc = "idle"
    /\ phist.calls < MaxPoolCalls
    /\ LET L == IF plock.cur = 0
                THEN [plock EXCEPT !.cur = plock.made + 1, !.made = @ + 1]
                ELSE plock
       IN  EnterLocked(t, "get", phist.calls + 1, L)
    /\ phist' = [phist EXCEPT !.calls = @ + 1]
    /\ UNCHANGED <<clock, poolRest, pool_impl, max_connections, pool_exists, connections, connected>>

\* release_connection(pool_id, connection) is called on the mixin
PoolRelease(t) ==
    /\ pool_impl = "mixin"
    /\ ptask[t].pc = "idle"
    /\ pool_exists
    /\ plock.cur # 0
    /\ \E i \in 1..Len(connections) :
          EnterLocked(t, "release", connections[i].connection, plock)
    /\ UNCHANGED <<clock, poolRest, pool_impl, max_connections, pool_exists, connections, connected, phist>>

\* the mixin's cleanup loop (task 0) wakes and calls _cleanup_pool
PoolCleanup ==
    /\ pool_impl = "mixin"
    /\ ptask[0].pc = "idle"
    /\ pool_exists
    /\ plock.cur # 0
    /\ EnterLocked(0, "cleanup", 0, plock)
    /\ UNCHANGED <<clock, poolRest, pool_impl, max_connections, pool_exists, connections, connected, phist>>

\* get_connection from the lock to its first await or its return
GetBody(t) ==
    LET i == FirstUsable(connections, clock)
        full == Len(connections) >= max_connections
        obs == [phist EXCEPT !.op = "get", !.was_full = full,
                             !.none_available = (i = 0), !.new_record = FALSE,
                             !.ret_available = TRUE, !.ret = 0]
        L == IF pool_exists THEN plock ELSE [plock EXCEPT !.pgen = @ + 1]
    IN  /\ pool_exists' = TRUE
        /\ IF i # 0
           THEN \* reuse
                /\ connections' = [connections EXCEPT ![i].last_used = clock,
                                                      ![i].use_count = @ + 1]
                /\ phist' = [obs EXCEPT !.ret = connections[i].connection]
                /\ plock' = ReleaseLock(L, ptask[t].gen)
                /\ ptask' = [u \in PTasks |->
                                IF u = t THEN IdlePoolTask
                                ELSE IF u = GrantedTo(L, ptask[t].gen)
                                     THEN [ptask[u] EXCEPT !.pc = "granted"]
                                     ELSE ptask[u]]
           ELSE IF PoolHasRoom(connections)
           THEN \* create: the mixin stores the record before connecting, the
                \* manager's pool after
                /\ connections' = IF pool_impl = "mixin"
                                  THEN Put(connections, Len(connections),
                                           NewRecord(Len(connections), ptask[t].arg, clock))
                                  ELSE connections
                /\ phist' = [obs EXCEPT !.new_record = (pool_impl = "mixin")]
                /\ plock' = L
                /\ ptask' = [ptask EXCEPT ![t].pc = "connecting",
                                          ![t].pgen = L.pgen,
                                          ![t].conn_id = Len(connections)]
           ELSE IF pool_impl = "mixin"
           THEN \* RuntimeError: the pool is full
                /\ connections' = connections
                /\ phist' = [obs EXCEPT !.ret = -1]
                /\ plock' = ReleaseLock(L, ptask[t].gen)
                /\ ptask' = [u \in PTasks |->
                                IF u = t THEN IdlePoolTask
                                ELSE IF u = GrantedTo(L, ptask[t].gen)
                                     THEN [ptask[u] EXCEPT !.pc = "granted"]
                                     ELSE ptask[u]]
           ELSE \* the manager's pool hands out the least loaded record
                LET k == _get_least_loaded_connection(connections)
                IN  /\ connections' = connections
                    /\ phist' = [obs EXCEPT
                                    !.ret = IF k = 0 THEN 0 ELSE connections[k].connection,
                                    !.ret_available = (k = 0)]
                    /\ plock' = ReleaseLock(L, ptask[t].gen)
                    /\ ptask' = [u \in PTasks |->
                                    IF u = t THEN IdlePoolTask
                                    ELSE IF u = GrantedTo(L, ptask[t].gen)
                                         THEN [ptask[u] EXCEPT !.pc = "granted"]
                                         ELSE ptask[u]]
        /\ UNCHANGED connected

\* release_connection from the lock on
ReleaseBody(t) ==
    /\ connections' =
          IF pool_exists /\ \E i \in 1..Len(connections) :
                               connections[i].connection = ptask[t].arg
          THEN LET i == CHOOSE k \in 1..Len(connections) :
                           /\ connections[k].connection = ptask[t].arg
                           /\ \A j \in 1..(k - 1) :
                                 connections[j].connection # ptask[t].arg
               IN  [connections EXCEPT ![i].last_used = clock]
          ELSE connections
    /\ FinishTask(t, IdlePoolTask, ptask[t].gen)
    /\ UNCHANGED <<pool_exists, connected, phist>>

\* the end of _cleanup_pool: an empty pool is dropped with its lock
CleanupFinish(cs, L) ==
    /\ connections' = cs
    /\ pool_exists' = (cs # << >>)
    /\ LET L1 == IF cs = << >> THEN [L EXCEPT !.cur = 0] ELSE L
       IN  /\ plock' = ReleaseLock(L1, ptask[0].gen)
           /\ ptask' = [u \in PTasks |->
                           IF u = 0 THEN IdlePoolTask
                           ELSE IF u = GrantedTo(L1, ptask[0].gen)
                                THEN [ptask[u] EXCEPT !.pc = "granted"]
                                ELSE ptask[u]]

\* _cleanup_pool from the lock to the first disconnect() it awaits
CleanupBody ==
    LET ids == SelectSeq(connections,
                         LAMBDA r : _should_remove_connection(r, clock))
    IN  IF ~pool_exists
        THEN \* KeyError: the pool was dropped while waiting
             /\ FinishTask(0, IdlePoolTask, ptask[0].gen)
             /\ UNCHANGED <<pool_exists, connections, connected, phist>>
        ELSE IF ids = << >>
        THEN /\ CleanupFinish(connections, plock)
             /\ UNCHANGED <<connected, phist>>
        ELSE /\ ptask' = [ptask EXCEPT ![0].pc = "cleaning",
                                       ![0].pgen = plock.pgen,
                                       ![0].to_remove = [i \in 1..Len(ids) |-> ids[i].id]]
             /\ UNCHANGED <<pool_exists, connections, connected, plock, phist>>

\* a coroutine that holds the lock runs its operation
PoolBody(t) ==
    /\ ptask[t].pc = "granted"
    /\ CASE ptask[t].op = "get" -> GetBody(t)
         [] ptask[t].op = "release" -> ReleaseBody(t)
         [] OTHER -> CleanupBody
    /\ UNCHANGED <<clock, poolRest, pool_impl, max_connections>>

\* connection.connect() returned or raised inside get_connection
PoolConnectDone(t) ==
    /\ ptask[t].pc = "connecting"
    /\ \E ok \in BOOLEAN :
          LET c == ptask[t].arg
              mine == ptask[t].pgen = plock.pgen /\ pool_exists
          IN  /\ connected' = IF ok THEN connected \cup {c} ELSE connected
              /\ connections' =
                    IF pool_impl = "mixin"
                    THEN IF ok \/ ~mine THEN connections
                         ELSE Del(connections, ptask[t].conn_id)
                    ELSE IF ok
                         THEN Put(connections, Len(connections),
                                  NewRecord(Len(connections), c, clock))
                         ELSE connections
              /\ phist' = [phist EXCEPT !.op = "get",
                                        !.ret = IF ok THEN c ELSE -1,
                                        !.new_record = ok /\ pool_impl = "manager",
                                        !.was_full = IF pool_impl = "manager"
                                                     THEN Len(connections) >= max_connections
                                                     ELSE @,
                                        !.ret_available = TRUE]
    /\ FinishTask(t, IdlePoolTask, ptask[t].gen)
    /\ UNCHANGED <<clock, poolRest, pool_impl, max_connections, pool_exists>>

RECURSIVE CleanupRemove(_, _)
\* "for conn_id in to_remove": a key that is gone raises KeyError and ends the
\* sweep; the result is the dict left and whether the sweep went through
CleanupRemove(cs, ids) ==
    IF ids = << >> THEN [cs |-> cs, done |-> TRUE]
    ELSE IF Head(ids) \notin Keys(cs) THEN [cs |-> cs, done |-> FALSE]
    ELSE CleanupRemove(Del(cs, Head(ids)), Tail(ids))

\* the disconnect() calls of the sweep have returned
PoolCleanupEnd ==
    /\ ptask[0].pc = "cleaning"
    /\ LET mine == ptask[0].pgen = plock.pgen /\ pool_exists
           r == CleanupRemove(connections, ptask[0].to_remove)
           gone == {connections[i].connection : i \in
                       {k \in 1..Len(connections) : connections[k].id \notin Keys(r.cs)}}
       IN  IF mine /\ r.done
           THEN /\ connected' = connected \ gone
                /\ CleanupFinish(r.cs, plock)
           ELSE /\ connected' = IF mine THEN connected \ gone ELSE connected
                /\ connections' = IF mine THEN r.cs ELSE connections
                /\ FinishTask(0, IdlePoolTask, ptask[0].gen)
                /\ UNCHANGED pool_exists
    /\ UNCHANGED <<clock, poolRest, pool_impl, max_connections, phist>>

\* _monitor_connections (task 0) finds under 70% of the manager pool's records
\* healthy and calls _reset_pool, which takes no lock: it disconnects the
\* connections one by one
PoolResetBegin ==
    /\ pool_impl = "manager"
    /\ ptask[0].pc = "idle"
    /\ connections # << >>
    /\ LET healthy == Cardinality({i \in 1..Len(connections) :
                                      _is_connection_healthy(connections[i], clock)})
       IN  healthy * 10 < Len(connections) * 7
    /\ connected' = connected \ {connections[i].connection : i \in 1..Len(connections)}
    /\ ptask' = [ptask EXCEPT ![0] =
                    [IdlePoolTask EXCEPT !.pc = "resetting",
                                         !.to_remove = [i \in 1..Len(connections) |->
                                                           connections[i].id]]]
    /\ UNCHANGED <<clock, poolRest, pool_impl, max_connections, pool_exists, connections, plock, phist>>

\* the end of _reset_pool: the dict is cleared, unless it changed size under
\* the loop, which raises RuntimeError
PoolResetEnd ==
    /\ ptask[0].pc = "resetting"
    /\ connections' = IF Len(connections) = Len(ptask[0].to_remove)
                      THEN << >> ELSE connections
    /\ ptask' = [ptask EXCEPT ![0] = IdlePoolTask]
    /\ UNCHANGED <<clock, poolRest, pool_impl, max_connections, pool_exists, connected, plock, phist>>

\* a pooled connection loses its transport
ConnDrop ==
    /\ \E c \in connected : connected' = connected \ {c}
    /\ UNCHANGED <<clock, poolRest, pool_impl, max_connections, pool_exists, connections, plock, ptask,
                   phist>>

PoolTickSeconds == POOL_IDLE_TTL + 1

PoolTick ==
    /\ pool_impl # "none"
    /\ clock + PoolTickSeconds <= MaxPoolTicks * PoolTickSeconds
    /\ clock' = clock + PoolTickSeconds
    /\ UNCHANGED <<poolRest, poolVars>>

\* a pool of either class as constructed; the manager's pool has its one lock
InitPool ==
    /\ clock = 0
    /\ creds = << >>
    /\ sched = SchedOff
    /\ TokInitCommon
    /\ ctask = << >>
    /\ pool_impl \in {"mixin", "manager"}
    /\ max_connections = PoolMaxSize
    /\ pool_exists = FALSE
    /\ connections = << >>
    /\ connected = {}
    /\ plock = [cur |-> IF pool_impl = "manager" THEN 1 ELSE 0,
                made |-> IF pool_impl = "manager" THEN 1 ELSE 0,
                held |-> {}, queue |-> << >>, pgen |-> 0]
    /\ ptask = [t \in 0..NPoolTasks |-> IdlePoolTask]
    /\ phist = NoPoolCall
    /\ SessOff

NextPool ==
    \/ \E t \in PTasks \ {0} : PoolGet(t)
    \/ \E t \in PTasks \ {0} : PoolRelease(t)
    \/ PoolCleanup
    \/ \E t \in PTasks : PoolBody(t)
    \/ \E t \in PTasks : PoolConnectDone(t)
    \/ PoolCleanupEnd
    \/ PoolResetBegin
    \/ PoolResetEnd
    \/ ConnDrop
    \/ PoolTick

SpecPool == InitPool /\ [][NextPool]_vars

\* a long time passes over the mixin's pool: more than the hard limit of
\* inactivity, or a whole day
PoolLongTick ==
    /\ clock < MaxPoolTicks * PoolTickSeconds
    /\ \E d \in {POOL_REMOVE_AFTER + 1, SECONDS_PER_DAY} : clock' = clock + d
    /\ UNCHANGED <<poolRest, poolVars>>

\* The mixin's pool, its get_connection calls and its cleanup sweeps
InitMixinPool ==
    /\ clock = 0
    /\ creds = << >>
    /\ sched = SchedOff
    /\ TokInitCommon
    /\ ctask = << >>
    /\ pool_impl = "mixin"
    /\ max_connections = MixinMaxSize
    /\ pool_exists = FALSE
    /\ connections = << >>
    /\ connected = {}
    /\ plock = [cur |-> 0, made |-> 0, held |-> {}, queue |-> << >>, pgen |-> 0]
    /\ ptask = [t \in 0..NMixinTasks |-> IdlePoolTask]
    /\ phist = NoPoolCall
    /\ SessOff

NextMixinPool ==
    \/ \E t \in PTasks \ {0} : PoolGet(t)
    \/ PoolCleanup
    \/ \E t \in PTasks : PoolBody(t)
    \/ \E t \in PTasks : PoolConnectDone(t)
    \/ PoolCleanupEnd
    \/ ConnDrop
    \/ PoolLongTick

SpecMixinPool == InitMixinPool /\ [][NextMixinPool]_vars

(* get_connection on several pool ids.  Here connections maps a pool id to its
   dict, and a coroutine's gen is the lock object it takes: the mixin keeps one
   lock per pool id in self.locks, ConnectionPool has the one self._lock. *)

PoolIds == 1..NPoolIds

\* self.locks[pool_id] of the mixin, self._lock of ConnectionPool
LockOf(pool_id) == IF pool_impl = "mixin" THEN pool_id ELSE 0

\* get_connection from the lock to its first await or its return: the dict it
\* leaves and whether it goes on to await connect()
GetStep(cs, c, now) ==
    LET i == FirstUsable(cs, now)
    IN  IF i # 0
        THEN [cs |-> [cs EXCEPT ![i].last_used = now, ![i].use_count = @ + 1],
              awaits |-> FALSE]
        ELSE IF PoolHasRoom(cs)
        THEN [cs |-> IF pool_impl = "mixin"
                     THEN Put(cs, Len(cs), NewRecord(Len(cs), c, now))
                     ELSE cs,
              awaits |-> TRUE]
        ELSE [cs |-> cs, awaits |-> FALSE]

\* the coroutine t leaves lock g and ends
IdFinish(t, g) ==
    /\ plock' = ReleaseLock(plock, g)
    /\ ptask' = [u \in PTasks |->
                    IF u = t THEN [IdlePoolTask EXCEPT !.pgen = 0]
                    ELSE IF u = GrantedTo(plock, g)
                         THEN [ptask[u] EXCEPT !.pc = "granted"]
                         ELSE ptask[u]]

\* get_connection(pool_id, ...) is called; the task's pgen is its pool id
IdGet(t, pool_id) ==
    /\ ptask[t].pc = "idle"
    /\ phist.calls < MaxIdCalls
    /\ plock' = Acquire(plock, t, LockOf(pool_id))
    /\ ptask' = [ptask EXCEPT ![t] =
                    [IdlePoolTask EXCEPT
                        !.pc = IF LockOf(pool_id) \in plock.held THEN "wait"
                                                               ELSE "granted",
                        !.op = "get", !.gen = LockOf(pool_id), !.pgen = pool_id,
                        !.arg = phist.calls + 1]]
    /\ phist' = [phist EXCEPT !.calls = @ + 1]
    /\ UNCHANGED <<clock, poolRest, pool_impl, max_connections, pool_exists, connections, connected>>

IdBody(t) ==
    /\ ptask[t].pc = "granted"
    /\ LET id == ptask[t].pgen
           r == GetStep(connections[id], ptask[t].arg, clock)
       IN  /\ connections' = [connections EXCEPT ![id] = r.cs]
           /\ IF r.awaits
              THEN /\ ptask' = [ptask EXCEPT ![t].pc = "connecting",
                                             ![t].conn_id = Len(connections[id])]
                   /\ UNCHANGED plock
              ELSE IdFinish(t, ptask[t].gen)
    /\ UNCHANGED <<clock, poolRest, pool_impl, max_connections, pool_exists, connected, phist>>

\* connection.connect() returned or raised inside get_connection
IdConnectDone(t) ==
    /\ ptask[t].pc = "connecting"
    /\ \E ok \in BOOLEAN :
          LET id == ptask[t].pgen
              c == ptask[t].arg
              cs == connections[id]
          IN  /\ connected' = IF ok THEN connected \cup {c} ELSE connected
              /\ connections' = [connections EXCEPT ![id] =
                    IF pool_impl = "mixin"
                    THEN IF ok THEN cs ELSE Del(cs, ptask[t].conn_id)
                    ELSE IF ok THEN Put(cs, Len(cs), NewRecord(Len(cs), c, clock))
                         ELSE cs]
    /\ IdFinish(t, ptask[t].gen)
    /\ UNCHANGED <<clock, poolRest, pool_impl, max_connections, pool_exists, phist>>

InitPoolIds ==
    /\ clock = 0
    /\ creds = << >>
    /\ sched = SchedOff
    /\ TokInitCommon
    /\ ctask = << >>
    /\ pool_impl \in {"mixin", "manager"}
    /\ max_connections = PoolMaxSize
    /\ pool_exists = TRUE
    /\ connections = [id \in PoolIds |-> << >>]
    /\ connected = {}
    /\ plock = [cur |-> 0, made |-> 0, held |-> {}, queue |-> << >>, pgen |-> 0]
    /\ ptask = [t \in 1..NIdTasks |-> IdlePoolTask]
    /\ phist = NoPoolCall
    /\ SessOff

NextPoolIds ==
    \/ \E t \in PTasks, id \in PoolIds : IdGet(t, id)
    \/ \E t \in PTasks : IdBody(t)
    \/ \E t \in PTasks : IdConnectDone(t)

SpecPoolIds == InitPoolIds /\ [][NextPoolIds]_vars

-----------------------------------------------------------------------------
(* Claims about Part III *)

\* C11: whatever get_connection, release_connection, cleanup sweeps and resets
\* were made, a pool id holds at most max_size connection records, and a
\* get_connection that finds max_size records adds none.
C11_PoolBounded ==
    /\ Len(connections) <= PoolMaxSize
    /\ (phist.op = "get" /\ phist.was_full) => ~phist.new_record

\* C11 witness: a get_connection call found the pool full after records had
\* been made and one had been removed again.
C11_Witness ==
    /\ phist.op = "get"
    /\ phist.was_full
    /\ Len(connections) = PoolMaxSize
    /\ phist.calls > PoolMaxSize + 1

\* C12: a get_connection that finds the pool full and no record passing the
\* availability predicate raises an error and returns no connection, and no
\* get_connection returns an existing record that fails the predicate.
C12_ExhaustedPoolRaises ==
    /\ (phist.op = "get" /\ phist.was_full /\ phist.none_available) => phist.ret = -1
    /\ phist.ret_available

-----------------------------------------------------------------------------
(* Part IV: client sessions.  strategies/consumers/manager.py
   (WebSocketManager with RateLimitMixin), strategies/brokers/base/consumer.py
   (BaseBrokerConsumer), strategies/consumers/base.py (BaseWebSocketConsumer)
   and strategies/brokers/tradovate/consumers.py (TradovateConsumer).

   A client frame is malformed (not JSON), or a JSON object whose type is in
   the routing table ("heartbeat") or is not ("native"). *)

ClientFrames == {"malformed", "heartbeat", "native"}

\* the session's history record before any message
NoMessageSeen ==
    [n |-> 0, ticks |-> 0, passed |-> << >>, over |-> FALSE,
     verdict |-> "none", reply |-> "none", routed |-> "none"]

sessRest == <<tokVars, cbVars, qVars, clVars, poolVars>>

\* the timestamps check_rate_limit keeps: (now - ts).seconds <= rate_window
RecentTimestamps(ts, now) ==
    SelectSeq(ts, LAMBDA t : TimedeltaSeconds(now - t) <= rate_window)

AtLimit_OneMore(kept) == Len(kept) > rate_limit

\* len(self.message_timestamps) >= self.rate_limit
AtLimit(kept) == Len(kept) >= rate_limit

\* RateLimitMixin.check_rate_limit: the verdict and the timestamps it leaves
check_rate_limit(ts, now) ==
    LET kept == RecentTimestamps(ts, now)
    IN  IF AtLimit(kept)
        THEN [ok |-> FALSE, message_timestamps |-> kept]
        ELSE [ok |-> TRUE, message_timestamps |-> Append(kept, now)]

\* the messages that passed during the rate_window seconds up to now
PassedSince(passed, now) ==
    {i \in 1..Len(passed) : now - rate_window <= passed[i] /\ passed[i] <= now}

\* WebSocketManager.receive.  A message the rate limit lets through reaches
\* self.message_handlers (or, when it is not JSON, self.handle_error), which
\* no class of WebSocketManager defines: the AttributeError leaves receive,
\* and the server either keeps the session or drops it.
ManagerReceive(frame) ==
    /\ consumer = "manager"
    /\ sess.state = "open"
    /\ shist.n < MaxMessages
    /\ IF ~sess.has_active_accounts
       THEN /\ sess' = [sess EXCEPT !.state = "closed"]
            /\ shist' = [shist EXCEPT !.n = @ + 1, !.over = FALSE,
                            !.verdict = "closed", !.reply = "none",
                            !.routed = "none"]
       ELSE LET r == check_rate_limit(sess.message_timestamps, clock)
                over == Cardinality(PassedSince(shist.passed, clock)) >= rate_limit
            IN  IF ~r.ok
                THEN /\ sess' = [sess EXCEPT
                                    !.message_timestamps = r.message_timestamps]
                     /\ shist' = [shist EXCEPT !.n = @ + 1, !.over = over,
                                     !.verdict = "limited",
                                     !.reply = "RATE_LIMIT_EXCEEDED",
                                     !.routed = "none"]
                ELSE /\ \E kept_open \in BOOLEAN :
                            sess' = [sess EXCEPT
                                !.message_timestamps = r.message_timestamps,
                                !.state = IF kept_open THEN "open" ELSE "closed"]
                     /\ shist' = [shist EXCEPT !.n = @ + 1, !.over = over,
                                     !.passed = Append(@, clock),
                                     !.verdict = "passed", !.reply = "none",
                                     !.routed = "raised"]
    /\ UNCHANGED <<clock, consumer, sessRest>>

RateTickChoices == {1, rate_window - 1, SECONDS_PER_DAY}

RateTick ==
    /\ consumer = "manager"
    /\ shist.ticks < MaxRateTicks
    /\ \E d \in RateTickChoices : clock' = clock + d
    /\ shist' = [shist EXCEPT !.ticks = @ + 1]
    /\ UNCHANGED <<consumer, sess, sessRest>>

\* an accepted WebSocketManager session: connect found active accounts
InitRate ==
    /\ clock = 0
    /\ creds = << >>
    /\ sched = SchedOff
    /\ TokInitCommon
    /\ ctask = << >>
    /\ PoolOff
    /\ consumer = "manager"
    /\ sess = [state |-> "open", has_active_accounts |-> TRUE,
               message_timestamps |-> << >>]
    /\ shist = NoMessageSeen

NextRate ==
    \/ \E frame \in ClientFrames : ManagerReceive(frame)
    \/ RateTick

SpecRate == InitRate /\ [][NextRate]_vars

\* ---- the supervised consumers: BaseBrokerConsumer, BaseWebSocketConsumer,
\* ---- TradovateConsumer

SupervisedConsumers == {"base_broker", "base_ws", "tradovate"}

\* message_type in self.message_handlers
InRoutingTable(frame) == frame = "heartbeat"

\* the heartbeat timeout test of heartbeat_loop; last_heartbeat -1 is None
HeartbeatTimedOut(last, now) ==
    /\ last # -1
    /\ now - last > 2 * heartbeat_interval

\* receive of BaseBrokerConsumer and BaseWebSocketConsumer.  authenticate
\* is left to the subclass: its answer is an input.
BaseReceive(frame, auth_ok) ==
    IF ~auth_ok
    THEN /\ sess' = [sess EXCEPT !.state = "closed"]
         /\ shist' = [shist EXCEPT !.n = @ + 1, !.frame = frame,
                         !.verdict = "unauthenticated", !.reply = "error",
                         !.routed = "none", !.silence = 0]
    ELSE IF frame = "malformed"
    THEN /\ sess' = sess
         /\ shist' = [shist EXCEPT !.n = @ + 1, !.frame = frame,
                         !.verdict = "invalid", !.reply = "error",
                         !.routed = "none", !.silence = 0]
    ELSE /\ sess' = [sess EXCEPT !.last_heartbeat = clock]
         /\ shist' = [shist EXCEPT !.n = @ + 1, !.frame = frame,
                         !.last_message = clock, !.verdict = "received",
                         !.reply = IF frame = "heartbeat" THEN "heartbeat"
                                   ELSE "none",
                         !.routed = IF InRoutingTable(frame) THEN "handler"
                                    ELSE "broker",
                         !.silence = 0]

\* TradovateConsumer.receive
TradovateReceive(frame) ==
    IF frame = "malformed"
    THEN /\ sess' = sess
         /\ shist' = [shist EXCEPT !.n = @ + 1, !.frame = frame,
                         !.verdict = "invalid", !.reply = "error",
                         !.routed = "none", !.silence = 0]
    ELSE /\ sess' = [sess EXCEPT !.last_heartbeat = clock]
         /\ shist' = [shist EXCEPT !.n = @ + 1, !.frame = frame,
                         !.last_message = clock, !.verdict = "received",
                         !.reply = IF frame = "heartbeat" THEN "heartbeat"
                                   ELSE "error",
                         !.routed = IF InRoutingTable(frame) THEN "handler"
                                    ELSE "none",
                         !.silence = 0]

SessReceive(frame) ==
    /\ consumer \in SupervisedConsumers
    /\ sess.state = "open"
    /\ shist.n < MaxMessages
    /\ IF consumer = "tradovate"
       THEN TradovateReceive(frame)
       ELSE \E auth_ok \in BOOLEAN : BaseReceive(frame, auth_ok)
    /\ UNCHANGED <<clock, consumer, sessRest>>

\* one round of heartbeat_loop, when its sleep ends.  TradovateConsumer
\* sends its heartbeat before the test, the base classes after it.
HeartbeatLoop ==
    /\ consumer \in SupervisedConsumers
    /\ sess.state = "open"
    /\ sess.hb_wake = clock
    /\ LET timed_out == HeartbeatTimedOut(sess.last_heartbeat, clock)
       IN  /\ sess' = IF timed_out
                      THEN [sess EXCEPT !.state = "closed", !.hb_wake = -1]
                      ELSE [sess EXCEPT !.hb_wake = clock + heartbeat_interval]
           /\ shist' = [shist EXCEPT !.frame = "none", !.verdict = "supervised",
                           !.reply = IF timed_out /\ consumer # "tradovate"
                                     THEN "none" ELSE "heartbeat",
                           !.routed = "none",
                           !.silence = clock - shist.last_message]
    /\ UNCHANGED <<clock, consumer, sessRest>>

\* time passes; a heartbeat_loop whose sleep has ended runs first
SessTick ==
    /\ consumer \in SupervisedConsumers
    /\ shist.ticks < MaxSessTicks
    /\ sess.state = "open" => sess.hb_wake > clock
    /\ clock' = clock + heartbeat_interval
    /\ shist' = [shist EXCEPT !.ticks = @ + 1]
    /\ UNCHANGED <<consumer, sess, sessRest>>

\* a session of one of the three classes, just accepted: heartbeat_loop
\* has been started and sleeps
InitSession ==
    /\ clock = 0
    /\ creds = << >>
    /\ sched = SchedOff
    /\ TokInitCommon
    /\ ctask = << >>
    /\ PoolOff
    /\ consumer \in SupervisedConsumers
    /\ sess = [state |-> "open", last_heartbeat |-> -1,
               hb_wake |-> heartbeat_interval]
    /\ shist = [n |-> 0, ticks |-> 0, frame |-> "none", last_message |-> 0,
                verdict |-> "none", reply |-> "none", routed |-> "none",
                silence |-> 0]

NextSession ==
    \/ \E frame \in ClientFrames : SessReceive(frame)
    \/ HeartbeatLoop
    \/ SessTick

SpecSession == InitSession /\ [][NextSession]_vars

\* ---- market-data subscriptions: BaseBrokerConsumer.handle_subscription over
\* ---- TradovateWebSocketClient.subscribe_market_data, and
\* ---- TradovateConsumer.handle_subscription / handle_unsubscribe.
\* ---- A request names one symbol.  sess.subscriptions is each session's
\* ---- set, sess.subscribed_symbols the broker client's; shist.frames counts
\* ---- the subscribe frames sent for a symbol since no session or client last
\* ---- held it unsubscribed.

Sessions == 1..NSessions
Symbols == 1..NSymbols

\* TradovateWebSocketClient.subscribe_market_data up to its await: the
\* frame goes out when the symbol is not in subscribed_symbols
SubscribeBegin(u, y) ==
    IF y \notin sess.subscribed_symbols
    THEN /\ sess' = [sess EXCEPT !.pc[u] = y]
         /\ shist' = [shist EXCEPT !.n = @ + 1, !.frames[y] = @ + 1]
    ELSE /\ sess' = [sess EXCEPT !.subscriptions[u] = @ \cup {y}]
         /\ shist' = [shist EXCEPT !.n = @ + 1]

\* TradovateConsumer.handle_subscription: one frame for every symbol named
TradovateSubscribe(u, y) ==
    /\ sess' = [sess EXCEPT !.subscriptions[u] = @ \cup {y}]
    /\ shist' = [shist EXCEPT !.n = @ + 1, !.frames[y] = @ + 1]

\* TradovateConsumer.handle_unsubscribe
TradovateUnsubscribe(u, y) ==
    /\ sess' = [sess EXCEPT !.subscriptions[u] = @ \ {y}]
    /\ shist' = [shist EXCEPT !.n = @ + 1,
                    !.frames[y] = IF \E v \in Sessions \ {u} :
                                        y \in sess.subscriptions[v]
                                  THEN @ ELSE 0]

\* a session receives a subscribe or unsubscribe request for one symbol
SubRequest(u, y, kind) ==
    /\ consumer \in {"base_broker", "tradovate"}
    /\ sess.pc[u] = 0
    /\ shist.n < MaxSubRequests
    /\ IF consumer = "base_broker"
       THEN SubscribeBegin(u, y)
       ELSE IF kind = "subscribe"
       THEN TradovateSubscribe(u, y)
       ELSE TradovateUnsubscribe(u, y)
    /\ UNCHANGED <<clock, consumer, sessRest>>

\* send_message returns: subscribed_symbols.add(symbol), then the consumer's
\* subscriptions.update(symbols)
SubscribeEnd(u) ==
    /\ consumer = "base_broker"
    /\ sess.pc[u] # 0
    /\ sess' = [sess EXCEPT !.pc[u] = 0,
                   !.subscribed_symbols = @ \cup {sess.pc[u]},
                   !.subscriptions[u] = @ \cup {sess.pc[u]}]
    /\ UNCHANGED <<clock, consumer, shist, sessRest>>

InitSub ==
    /\ clock = 0
    /\ creds = << >>
    /\ sched = SchedOff
    /\ TokInitCommon
    /\ ctask = << >>
    /\ PoolOff
    /\ consumer \in {"base_broker", "tradovate"}
    /\ sess = [subscriptions |-> [u \in Sessions |-> {}],
               subscribed_symbols |-> {},
               pc |-> [u \in Sessions |-> 0]]
    /\ shist = [n |-> 0, frames |-> [y \in Symbols |-> 0]]

NextSub ==
    \/ \E u \in Sessions, y \in Symbols, kind \in {"subscribe", "unsubscribe"} :
          SubRequest(u, y, kind)
    \/ \E u \in Sessions : SubscribeEnd(u)

SpecSub == InitSub /\ [][NextSub]_vars

\* ---- the end of a session: the disconnect handlers of the three consumer
\* ---- classes.  sess.heartbeat_task and sess.cleanup_task are "running",
\* ---- "cancelled" or "none" (the class has no such task); sess.broker is
\* ---- "connected", "cleaned" or "none"; sess.group tells the session is in
\* ---- its channel-layer group.

\* what can raise inside disconnect: broker.cleanup(), group_discard, or
\* send_json of an unsubscribe frame
DisconnectFaults == {"none", "cleanup", "group_discard", "send_json"}

\* BaseBrokerConsumer.disconnect
BrokerConsumerDisconnect(fault) ==
    /\ fault \in {"none", "cleanup"}
    /\ sess' = [sess EXCEPT !.state = "disconnected",
                   !.heartbeat_task = "cancelled",
                   !.cleanup_task = "cancelled",
                   !.broker = IF fault = "cleanup" THEN @ ELSE "cleaned",
                   !.subscriptions = IF fault = "cleanup" THEN @ ELSE {},
                   !.is_authenticated = FALSE]

\* BaseWebSocketConsumer.disconnect, with stop_background_tasks and cleanup
WsConsumerDisconnect(fault) ==
    /\ fault \in {"none", "group_discard"}
    /\ sess' = [sess EXCEPT !.state = "disconnected",
                   !.heartbeat_task = "cancelled",
                   !.cleanup_task = "cancelled",
                   !.group = IF fault = "group_discard" THEN @ ELSE FALSE,
                   !.subscriptions = IF fault = "group_discard" THEN @ ELSE {},
                   !.is_authenticated = FALSE]

\* TradovateConsumer.disconnect over unsubscribe_all and handle_unsubscribe:
\* the symbols are taken in the order of list(self.subscriptions); when the
\* send_json of symbol y raises, the symbols in gone were removed before it.
\* handle_unsubscribe catches the exception and calls send_error, which
\* raises in its turn (error_sent false) or not.
TradovateDisconnect(fault, y, gone, error_sent) ==
    /\ fault \in {"none", "group_discard", "send_json"}
    /\ fault = "send_json" => ( /\ y \in sess.subscriptions
                                /\ gone \subseteq sess.subscriptions \ {y} )
    /\ fault # "send_json" => ( /\ y = 0 /\ gone = {} /\ error_sent )
    /\ sess' = [sess EXCEPT !.state = "disconnected",
                   !.heartbeat_task = "cancelled",
                   !.subscriptions = IF fault = "send_json" THEN @ \ gone
                                     ELSE {},
                   !.group = IF \/ fault = "group_discard"
                                 \/ (fault = "send_json" /\ ~error_sent)
                              THEN @ ELSE FALSE]

\* the session is closed and its disconnect handler runs to its end
SessDisconnect(fault) ==
    /\ sess.state = "open"
    /\ CASE consumer = "base_broker" -> BrokerConsumerDisconnect(fault)
         [] consumer = "base_ws" -> WsConsumerDisconnect(fault)
         [] OTHER -> \E y \in Symbols \cup {0}, gone \in SUBSET Symbols,
                        error_sent \in BOOLEAN :
                        TradovateDisconnect(fault, y, gone, error_sent)
    /\ shist' = [shist EXCEPT !.raised = fault]
    /\ UNCHANGED <<clock, consumer, sessRest>>

\* a subscribe or unsubscribe request of an open session has been handled;
\* receive has authenticated the session of a base class
SessSubscription(y, kind) ==
    /\ sess.state = "open"
    /\ shist.n < MaxSubRequests
    /\ sess' = [sess EXCEPT
                   !.subscriptions = IF kind = "subscribe" THEN @ \cup {y}
                                     ELSE @ \ {y},
                   !.is_authenticated = consumer # "tradovate"]
    /\ shist' = [shist EXCEPT !.n = @ + 1]
    /\ UNCHANGED <<clock, consumer, sessRest>>

\* an accepted session of one of the three classes with its background
\* tasks started
InitClosing ==
    /\ clock = 0
    /\ creds = << >>
    /\ sched = SchedOff
    /\ TokInitCommon
    /\ ctask = << >>
    /\ PoolOff
    /\ consumer \in SupervisedConsumers
    /\ sess = [state |-> "open", subscriptions |-> {},
               heartbeat_task |-> "running",
               cleanup_task |-> IF consumer = "tradovate" THEN "none"
                                ELSE "running",
               broker |-> IF consumer = "base_broker" THEN "connected"
                          ELSE "none",
               group |-> consumer # "base_broker",
               is_authenticated |-> FALSE]
    /\ shist = [n |-> 0, raised |-> "none"]

NextClosing ==
    \/ \E y \in Symbols, kind \in {"subscribe", "unsubscribe"} :
          SessSubscription(y, kind)
    \/ \E fault \in DisconnectFaults : SessDisconnect(fault)

SpecClosing == InitClosing /\ [][NextClosing]_vars

\* ---- the broker client's own subscription set over its connection:
\* ---- sess.subscribed_symbols is TradovateWebSocketClient.subscribed_symbols,
\* ---- shist.transmitted the symbols whose subscribe frame went out on a
\* ---- transport.

\* subscribe_market_data([symbol]); transport_ok is the outcome of ws.send.
\* send_message queues the frame of a client that is not connected and
\* returns; it raises when the transport refuses the frame, and then the
\* symbol is not added.
SubscribeMarketData(y, transport_ok) ==
    /\ shist.n < MaxSubRequests
    /\ LET r == send_message(high_priority_queue, queue, is_connected,
                             ws = "open" /\ transport_ok,
                             [type |-> "subscribe"], FALSE, clock)
       IN  IF y \in sess.subscribed_symbols
           THEN /\ UNCHANGED <<high_priority_queue, queue, sess>>
                /\ shist' = [shist EXCEPT !.n = @ + 1]
           ELSE /\ high_priority_queue' = r.high
                /\ queue' = r.normal
                /\ sess' = [sess EXCEPT !.subscribed_symbols =
                               IF r.raised THEN @ ELSE @ \cup {y}]
                /\ shist' = [shist EXCEPT !.n = @ + 1,
                                !.transmitted =
                                   IF r.transmitted THEN @ \cup {y} ELSE @]
    /\ UNCHANGED <<clock, tokVars, cbVars, qhist, batchVars, clVars, poolVars,
                   consumer>>

InitSymbols ==
    /\ clock = 0
    /\ creds = << >>
    /\ sched = SchedOff
    /\ TokInitCommon
    /\ ctask = [t \in {1} |-> IdleTask]
    /\ PoolOff
    /\ consumer = "none"
    /\ sess = [subscribed_symbols |-> {}]
    /\ shist = [n |-> 0, transmitted |-> {}]

NextSymbols ==
    \/ StartConnect(1)
    \/ StartDisconnect(1)
    \/ Opened(1)
    \/ AuthDone(1)
    \/ HbWake(1)
    \/ CloseDone(1)
    \/ \E y \in Symbols, ok \in BOOLEAN : SubscribeMarketData(y, ok)
    \/ C_Tick

SpecSymbols == InitSymbols /\ [][NextSymbols]_vars

-----------------------------------------------------------------------------
(* Claims about Part IV *)

\* C13: of the messages of one session that passed check_rate_limit, at most
\* rate_limit lie in any window of rate_window seconds; a message received
\* when rate_limit messages passed during the last rate_window seconds is
\* refused, and a refused message is answered with the error code
\* RATE_LIMIT_EXCEEDED, reaches no handler and leaves the session open.
C13_RateLimited ==
    /\ \A i \in 1..Len(shist.passed) :
          Cardinality(PassedSince(shist.passed, shist.passed[i])) <= rate_limit
    /\ shist.over => shist.verdict = "limited"
    /\ shist.verdict = "limited" =>
          /\ shist.reply = "RATE_LIMIT_EXCEEDED"
          /\ shist.routed = "none"
          /\ sess.state = "open"

\* C13 witness: rate_limit messages passed within one window and the next
\* message of the window was refused.
C13_Witness ==
    /\ shist.verdict = "limited"
    /\ shist.over
    /\ Len(shist.passed) >= rate_limit
    /\ sess.state = "open"

\* C14: when heartbeat_loop examines a session that has had no client
\* message for more than 2 x heartbeat_interval (counted from the accept for
\* a session that never sent one), the session is closed.
C14_SilentSessionClosed ==
    (shist.verdict = "supervised" /\ shist.silence > 2 * heartbeat_interval)
        => sess.state = "closed"

\* C15: a message whose type is not in the routing table is handed to the
\* broker-specific handler and is not answered with an error.
C15_UnknownTypeForwarded ==
    (shist.verdict = "received" /\ shist.frame = "native")
        => (shist.routed = "broker" /\ shist.reply # "error")

\* C16: while a symbol stays subscribed, at most one subscribe frame for it
\* has been sent, whatever subscribe requests the sessions made.
C16_OneSubscribeFramePerSymbol ==
    \A y \in Symbols : shist.frames[y] <= 1

\* C31: every symbol recorded in subscribed_symbols belongs to a client whose
\* transport is open and has had its subscribe frame transmitted.
C31_RecordedMeansTransmitted ==
    \A y \in sess.subscribed_symbols :
        /\ ws = "open"
        /\ y \in shist.transmitted

\* C32: the step in which clear_old_messages(max_age) returns leaves in each of
\* the two queues exactly the entries younger than max_age, in their order.
C32_OldMessagesCleared ==
    [][( /\ qhist'.lastOp = "clear"
         /\ clock' = clock )
       => LET Young(d) == SelectSeq(d, LAMBDA e : clock - e[1] < DEFAULT_MAX_AGE)
          IN  /\ queue' = Young(queue)
              /\ high_priority_queue' = Young(high_priority_queue)]_vars

\* C33: a get_connection call that waits for a lock never waits behind a call
\* for another pool id that holds the lock while it awaits connect().
C33_PoolIdsIndependent ==
    \A t \in PTasks : \A u \in PTasks :
        ( /\ ptask[t].pc = "wait"
          /\ ptask[u].pc = "connecting"
          /\ ptask[u].gen = ptask[t].gen )
        => ptask[u].pgen = ptask[t].pgen

\* the eviction predicate on a record's age in seconds
Evictable(cd, now) ==
    \/ ~cd.is_active
    \/ cd.connection \notin connected
    \/ now - cd.last_used > POOL_REMOVE_AFTER
    \/ (now - cd.last_used > POOL_REMOVE_IDLE /\ cd.use_count < POOL_REMOVE_MIN_USES)

\* C34: a cleanup sweep that runs from its start to its end without waiting,
\* or the step that ends a sweep after its disconnect() calls, leaves in the
\* pool no record that was evictable when the sweep started, has disconnected
\* every record it removed, and leaves no empty pool registered, nor its lock.
C34_SweepEvicts ==
    [][/\ ( /\ ptask[0].pc = "granted"
            /\ ptask'[0].pc = "idle"
            /\ pool_exists )
          => \A i \in 1..Len(connections) :
                Evictable(connections[i], clock)
                   => connections[i].id \notin Keys(connections')
       /\ ( /\ ptask[0].pc = "cleaning"
            /\ ptask'[0].pc = "idle" )
          => /\ \A k \in 1..Len(ptask[0].to_remove) :
                   ptask[0].to_remove[k] \notin Keys(connections')
             /\ \A i \in 1..Len(connections) :
                   connections[i].id \notin Keys(connections')
                      => connections[i].connection \notin connected'
             /\ connections' = << >> => (~pool_exists' /\ plock'.cur = 0)]_vars

\* C35: when the disconnect handler of a session has finished, its background
\* tasks are cancelled, its broker has been cleaned up unless the broker's
\* cleanup is the step that raised, and its subscription set is empty,
\* whatever step raised.
C35_DisconnectCleansUp ==
    sess.state = "disconnected"
       => /\ sess.heartbeat_task # "running"
          /\ sess.cleanup_task # "running"
          /\ shist.raised # "cleanup" => sess.broker # "connected"
          /\ sess.subscriptions = {}

\* C36: a call of _should_adjust_batch_size halves the ceiling, not below 1,
\* when the average processing time is above 500 ms; doubles it, not above
\* 1000, when the average is below 100 ms and more messages are pending than
\* the ceiling; in every other case, no batch measured yet included, it
\* returns False and leaves the ceiling alone; the ceiling stays in 1..1000.
C36_CeilingAdjusted ==
    [][bthist'.n = bthist.n + 1
         => LET n == Len(stats)
                slow == n > 0 /\ SeqSum(stats) > SLOW_MS * n
                fast == n > 0 /\ SeqSum(stats) < FAST_MS * n
                grow == fast /\ bthist'.pending > batch_configs
            IN  /\ slow => /\ bthist'.ret = "True"
                           /\ batch_configs' = Max(1, batch_configs \div 2)
                /\ grow => /\ bthist'.ret = "True"
                           /\ batch_configs' = Min(BATCH_SIZE_CAP, batch_configs * 2)
                /\ (~slow /\ ~grow) => /\ bthist'.ret = "False"
                                       /\ batch_configs' = batch_configs
                /\ batch_configs' \in 1..BATCH_SIZE_CAP]_vars

\* C37: whenever no coroutine is inside connect(), disconnect() or
\* reconnect(), is_connected is true exactly when connection_state is
\* CONNECTED.
C37_FlagMatchesState ==
    (\A t \in CTasks : ctask[t].pc = "idle")
       => (is_connected <=> connection_state = "CONNECTED")

\* C38: a credential id is in _refresh_in_progress only while a call of
\* refresh_token_if_needed for that id holds the id's lock and is inside the
\* locked section; once no call for the id is running, the id is not in the
\* set and its lock is free.
C38_InProgressUnderLock ==
    \A c \in Creds :
        /\ c \in _refresh_in_progress
              => /\ _locks[c] \in Tasks
                 /\ calls[_locks[c]].cid = c
                 /\ calls[_locks[c]].pc = "http"
        /\ (\A p \in Tasks : calls[p].cid = c => calls[p].pc = "done")
              => /\ c \notin _refresh_in_progress
                 /\ _locks[c] = 0

\* a call that awaited the broker has returned False, a second call for the
\* same id has skipped it meanwhile, and the id is out of the set with its
\* lock free
C38_Witness ==
    \E p \in Tasks : \E q \in Tasks :
        /\ calls[p].pc = "done" /\ calls[p].path = "http" /\ calls[p].ret = "False"
        /\ calls[q].pc = "done" /\ calls[q].path = "skip"
        /\ calls[q].cid = calls[p].cid
        /\ calls[p].cid \notin _refresh_in_progress
        /\ _locks[calls[p].cid] = 0

\* C39: in the mixin's pool no coroutine runs the section guarded by the
\* pool id's lock while another coroutine is in the middle of it, awaiting
\* connect() or disconnect().
C39_OneInLockedSection ==
    [][\A u \in PTasks :
          ( /\ pool_impl = "mixin"
            /\ ptask[u].pc = "granted"
            /\ ptask'[u].pc # "granted" )
             => \A t \in PTasks \ {u} :
                   ptask[t].pc \notin {"connecting", "cleaning"}]_vars

\* C40: no step of a pool puts another connection object under the id of a
\* record the pool holds: a record stays the record of its id until it is
\* removed.
C40_NoRecordReplaced ==
    [][\A i \in 1..Len(connections) : \A j \in 1..Len(connections') :
          connections'[j].id = connections[i].id
             => connections'[j].connection = connections[i].connection]_vars

====
